---- MODULE Spec2Model ----
(***************************************************************************)
(* Kithare front end: the Unicode lexer of src/src/lexer.c, modelled over  *)
(* a buffer of code points, and the recursive-descent parser of            *)
(* src/src/parser.c, modelled over a buffer of lexical units.              *)
(***************************************************************************)
EXTENDS Integers, Sequences, FiniteSets, TLC

VARIABLES
    text,       \* lexer: the zero-terminated buffer of code points
    cursor,     \* lexer: *cursor, an index into text
    lexpc,      \* lexer: "idle" between calls of kh_lex, "string" inside kh_lexString's loop
    lexing,     \* lexer: locals of the call of kh_lex / kh_lexString in progress
    tokens,     \* lexer: one record per returned call of kh_lex
    lexErrors,  \* lexer: khArray_khLexError* errors
    source,     \* parser: the buffer, one lexical unit per position
    pcursor,    \* parser: the cursor of kh_parse / of the caller of kh_parseExpression
    ppc,        \* parser: "init", "parse" (inside kh_parse's loop), "expr", "done"
    asts,       \* parser: the array kh_parse builds
    expression, \* parser: the results of kh_parseExpression calls
    calls,      \* parser: one record per sparseStatement call of kh_parse
    errors      \* parser: the errors raised through kh_raiseError

vars == <<text, cursor, lexpc, lexing, tokens, lexErrors,
          source, pcursor, ppc, asts, expression, calls, errors>>

lexVars == <<text, cursor, lexpc, lexing, tokens, lexErrors>>
parseVars == <<source, pcursor, ppc, asts, expression, calls, errors>>

(***************************************************************************)
(* Bounds of the model.                                                    *)
(***************************************************************************)
MaxLen == 4        \* code points in the lexer's buffer, terminator excluded
MaxCalls == 3      \* calls of kh_lex a driver makes

\* what the model keeps of an array a loop of the lexer grows without advancing:
\* pushes beyond these sizes are dropped, which makes such a loop a cycle
MaxErrors == 3 * (MaxLen + MaxCalls)
MaxString == MaxLen + 2

Kept(array, size) == IF Len(array) > size THEN SubSeq(array, 1, size) ELSE array

(***************************************************************************)
(* Code points.                                                            *)
(***************************************************************************)
U_NUL == 0
U_BEL == 7
U_BS == 8
U_TAB == 9
U_NL == 10
U_VT == 11
U_FF == 12
U_CR == 13
U_SP == 32
U_EXCLAMATION == 33
U_DQUOTE == 34
U_HASH == 35
U_DOLLAR == 36
U_PERCENT == 37
U_AMPERSAND == 38
U_SQUOTE == 39
U_LPAREN == 40
U_RPAREN == 41
U_STAR == 42
U_PLUS == 43
U_COMMA == 44
U_MINUS == 45
U_DOT == 46
U_SLASH == 47
U_0 == 48
U_1 == 49
U_2 == 50
U_4 == 52
U_9 == 57
U_COLON == 58
U_SEMICOLON == 59
U_LESS == 60
U_EQUAL == 61
U_MORE == 62
U_AT == 64
U_A == 65
U_B == 66
U_D == 68
U_E == 69
U_F == 70
U_I == 73
U_L == 76
U_O == 79
U_P == 80
U_S == 83
U_U == 85
U_X == 88
U_Z == 90
U_LBRACKET == 91
U_BACKSLASH == 92
U_RBRACKET == 93
U_CARET == 94
U_a == 97
U_b == 98
U_c == 99
U_d == 100
U_e == 101
U_f == 102
U_h == 104
U_i == 105
U_k == 107
U_l == 108
U_m == 109
U_n == 110
U_o == 111
U_p == 112
U_r == 114
U_s == 115
U_t == 116
U_u == 117
U_v == 118
U_w == 119
U_x == 120
U_y == 121
U_z == 122
U_LBRACE == 123
U_PIPE == 124
U_RBRACE == 125
U_TILDE == 126
U_SNOWMAN == 9731

iswspace(chr) == chr \in {U_SP, U_TAB, U_NL, U_VT, U_FF, U_CR}

iswalpha(chr) ==
    \/ chr >= U_A /\ chr <= U_Z
    \/ chr >= U_a /\ chr <= U_z

iswalnum(chr) == iswalpha(chr) \/ (chr >= U_0 /\ chr <= U_9)

(***************************************************************************)
(* uint64_t, as four 16-bit limbs, least significant first.                *)
(***************************************************************************)
Limb == 65536

Zero64 == <<0, 0, 0, 0>>

\* result *= base; result += digit, wrapping at 2^64
MulAdd64(n, base, digit) ==
    LET t1 == n[1] * base + digit
        t2 == n[2] * base + (t1 \div Limb)
        t3 == n[3] * base + (t2 \div Limb)
        t4 == n[4] * base + (t3 \div Limb)
    IN  <<t1 % Limb, t2 % Limb, t3 % Limb, t4 % Limb>>

\* a < b on uint64_t
Less64(a, b) ==
    \/ a[4] < b[4]
    \/ a[4] = b[4] /\ a[3] < b[3]
    \/ a[4] = b[4] /\ a[3] = b[3] /\ a[2] < b[2]
    \/ a[4] = b[4] /\ a[3] = b[3] /\ a[2] = b[2] /\ a[1] < b[1]

From64(n) == <<n % Limb, (n \div Limb) % Limb, 0, 0>>

(***************************************************************************)
(* The lexer (src/src/lexer.c).                                            *)
(***************************************************************************)
\* ERROR(MSG): push {.ptr = *cursor, .error = MSG}
LexError(errs, ptr, msg) == Append(errs, [ptr |-> ptr, error |-> msg])

digitOf_decimal(chr) == IF chr >= U_0 /\ chr <= U_9 THEN chr - U_0 ELSE 255

digitOf(chr) ==
    IF chr >= U_0 /\ chr <= U_9 THEN chr - U_0
    ELSE IF chr >= U_A /\ chr <= U_Z THEN chr - U_A + 10
    ELSE IF chr >= U_a /\ chr <= U_z THEN chr - U_a + 10
    ELSE 255

\* max_length of (size_t)-1 is written -1
RECURSIVE lexIntLoop(_, _, _, _, _)
\* the end of an iteration: if (result < previous) *had_overflowed = true
lexIntStep(cur, base, max_length, previous, result, had_overflowed) ==
    IF Less64(result, previous)
    THEN lexIntLoop(cur + 1, base, max_length, result, TRUE)
    ELSE lexIntLoop(cur + 1, base, max_length, result, had_overflowed)

lexIntLoop(cur, base, max_length, result, had_overflowed) ==
    IF digitOf(text[cur]) < base /\ max_length # 0
    THEN lexIntStep(cur, base, IF max_length = -1 THEN -1 ELSE max_length - 1,
                    result, MulAdd64(result, base, digitOf(text[cur])), had_overflowed)
    ELSE [result |-> result, cursor |-> cur, had_overflowed |-> had_overflowed]

kh_lexInt(cur, base, max_length) ==
    lexIntLoop(cur, base, max_length, Zero64, FALSE)

\* the digits kh_lexFloat consumes in one of its two digit loops
RECURSIVE lexFloatDigits(_, _, _)
lexFloatDigits(cur, base, digits) ==
    IF digitOf(text[cur]) < base
    THEN lexFloatDigits(cur + 1, base, Append(digits, digitOf(text[cur])))
    ELSE [digits |-> digits, cursor |-> cur]

\* The double is kept as what it is computed from: the digits of the integer
\* and fractional parts and the exponent.
lexFloatValue(base, ip, fp, kind, negative, ex) ==
    [floating |-> [base |-> base, integer |-> ip.digits, fraction |-> fp.digits,
                   exponent |-> kind, negative |-> negative,
                   power |-> ex.result, saturated |-> ex.had_overflowed],
     cursor |-> ex.cursor]

\* the exponent after e, E, p or P, with its optional sign
lexFloatExponent(base, ip, fp, kind) ==
    lexFloatValue(base, ip, fp, kind, text[fp.cursor + 1] = U_MINUS,
        kh_lexInt(IF text[fp.cursor + 1] \in {U_MINUS, U_PLUS}
                  THEN fp.cursor + 2 ELSE fp.cursor + 1, 10, -1))

lexFloatMark(base, ip, fp) ==
    IF text[fp.cursor] \in {U_e, U_E} THEN lexFloatExponent(base, ip, fp, "e")
    ELSE IF text[fp.cursor] \in {U_p, U_P} THEN lexFloatExponent(base, ip, fp, "p")
    ELSE lexFloatValue(base, ip, fp, "none", FALSE,
             [result |-> Zero64, cursor |-> fp.cursor, had_overflowed |-> FALSE])

lexFloatFraction(base, ip) ==
    lexFloatMark(base, ip,
        IF text[ip.cursor] = U_DOT THEN lexFloatDigits(ip.cursor + 1, base, <<>>)
        ELSE [digits |-> <<>>, cursor |-> ip.cursor])

kh_lexFloat(cur, base) == lexFloatFraction(base, lexFloatDigits(cur, base, <<>>))

Token(type, value) == [type |-> type, value |-> value]

khToken_fromNone == Token("NONE", Zero64)

\* the suffix switch of a floating literal
lexFloatSuffix(cur, floating) ==
    LET c1 == text[cur]
    IN  IF c1 \in {U_f, U_F} THEN [token |-> Token("FLOAT", floating), cursor |-> cur + 1]
        ELSE IF c1 \in {U_d, U_D} THEN [token |-> Token("DOUBLE", floating), cursor |-> cur + 1]
        ELSE IF c1 \in {U_i, U_I}
        THEN LET c2 == text[cur + 1]
             IN  IF c2 \in {U_f, U_F}
                 THEN [token |-> Token("IFLOAT", floating), cursor |-> cur + 2]
                 ELSE IF c2 \in {U_d, U_D}
                 THEN [token |-> Token("IDOUBLE", floating), cursor |-> cur + 2]
                 ELSE [token |-> Token("IDOUBLE", floating), cursor |-> cur + 1]
        ELSE [token |-> Token("DOUBLE", floating), cursor |-> cur]

lexNumberFloat(errs, fl) == lexFloatSuffix(fl.cursor, fl.floating) @@ [errors |-> errs]

\* lexIntSuffix without the (*cursor)-- of the default cases: the code point after
\* the suffix is consumed with it
lexIntSuffix_keepsLookahead(cur, integer) ==
    LET c1 == text[cur]
    IN  IF c1 \in {U_b, U_B} THEN [token |-> Token("BYTE", integer), cursor |-> cur + 1]
        ELSE IF c1 \in {U_s, U_S}
        THEN LET c2 == text[cur + 1]
             IN  IF c2 \in {U_b, U_B}
                 THEN [token |-> Token("SBYTE", integer), cursor |-> cur + 2]
                 ELSE IF c2 \in {U_s, U_S}
                 THEN [token |-> Token("SHORT", integer), cursor |-> cur + 2]
                 ELSE IF c2 \in {U_l, U_L}
                 THEN [token |-> Token("LONG", integer), cursor |-> cur + 2]
                 ELSE [token |-> Token("SHORT", integer), cursor |-> cur + 2]
        ELSE IF c1 \in {U_l, U_L} THEN [token |-> Token("LONG", integer), cursor |-> cur + 1]
        ELSE IF c1 \in {U_u, U_U}
        THEN LET c2 == text[cur + 1]
             IN  IF c2 \in {U_b, U_B}
                 THEN [token |-> Token("BYTE", integer), cursor |-> cur + 2]
                 ELSE IF c2 \in {U_s, U_S}
                 THEN [token |-> Token("USHORT", integer), cursor |-> cur + 2]
                 ELSE IF c2 \in {U_l, U_L}
                 THEN [token |-> Token("ULONG", integer), cursor |-> cur + 2]
                 ELSE [token |-> Token("UINT", integer), cursor |-> cur + 2]
        ELSE IF c1 \in {U_f, U_F} THEN [token |-> Token("FLOAT", integer), cursor |-> cur + 1]
        ELSE IF c1 \in {U_d, U_D} THEN [token |-> Token("DOUBLE", integer), cursor |-> cur + 1]
        ELSE IF c1 \in {U_i, U_I}
        THEN LET c2 == text[cur + 1]
             IN  IF c2 \in {U_f, U_F}
                 THEN [token |-> Token("IFLOAT", integer), cursor |-> cur + 2]
                 ELSE IF c2 \in {U_d, U_D}
                 THEN [token |-> Token("IDOUBLE", integer), cursor |-> cur + 2]
                 ELSE [token |-> Token("IDOUBLE", integer), cursor |-> cur + 1]
        ELSE [token |-> Token("INT", integer), cursor |-> cur]

\* the suffix switch of an integer literal
lexIntSuffix(cur, integer) ==
    LET c1 == text[cur]
    IN  IF c1 \in {U_b, U_B} THEN [token |-> Token("BYTE", integer), cursor |-> cur + 1]
        ELSE IF c1 \in {U_s, U_S}
        THEN LET c2 == text[cur + 1]
             IN  IF c2 \in {U_b, U_B}
                 THEN [token |-> Token("SBYTE", integer), cursor |-> cur + 2]
                 ELSE IF c2 \in {U_s, U_S}
                 THEN [token |-> Token("SHORT", integer), cursor |-> cur + 2]
                 ELSE IF c2 \in {U_l, U_L}
                 THEN [token |-> Token("LONG", integer), cursor |-> cur + 2]
                 ELSE [token |-> Token("SHORT", integer), cursor |-> cur + 1]
        ELSE IF c1 \in {U_l, U_L} THEN [token |-> Token("LONG", integer), cursor |-> cur + 1]
        ELSE IF c1 \in {U_u, U_U}
        THEN LET c2 == text[cur + 1]
             IN  IF c2 \in {U_b, U_B}
                 THEN [token |-> Token("BYTE", integer), cursor |-> cur + 2]
                 ELSE IF c2 \in {U_s, U_S}
                 THEN [token |-> Token("USHORT", integer), cursor |-> cur + 2]
                 ELSE IF c2 \in {U_l, U_L}
                 THEN [token |-> Token("ULONG", integer), cursor |-> cur + 2]
                 ELSE [token |-> Token("UINT", integer), cursor |-> cur + 1]
        ELSE IF c1 \in {U_f, U_F} THEN [token |-> Token("FLOAT", integer), cursor |-> cur + 1]
        ELSE IF c1 \in {U_d, U_D} THEN [token |-> Token("DOUBLE", integer), cursor |-> cur + 1]
        ELSE IF c1 \in {U_i, U_I}
        THEN LET c2 == text[cur + 1]
             IN  IF c2 \in {U_f, U_F}
                 THEN [token |-> Token("IFLOAT", integer), cursor |-> cur + 2]
                 ELSE IF c2 \in {U_d, U_D}
                 THEN [token |-> Token("IDOUBLE", integer), cursor |-> cur + 2]
                 ELSE [token |-> Token("IDOUBLE", integer), cursor |-> cur + 1]
        ELSE [token |-> Token("INT", integer), cursor |-> cur]

\* the base prefix switch: 0b, 0o, 0x, or back to the zero
lexBasePrefix(cur) ==
    IF text[cur] = U_0
    THEN LET c == text[cur + 1]
         IN  IF c \in {U_b, U_B} THEN [base |-> 2, cursor |-> cur + 2]
             ELSE IF c \in {U_o, U_O} THEN [base |-> 8, cursor |-> cur + 2]
             ELSE IF c \in {U_x, U_X} THEN [base |-> 16, cursor |-> cur + 2]
             ELSE [base |-> 10, cursor |-> cur]
    ELSE [base |-> 10, cursor |-> cur]

lexBaseMessage(base) ==
    CASE base = 2 -> "expecting a binary number, either 0 or 1"
      [] base = 8 -> "expecting an octal number, from 0 to 7"
      [] base = 10 -> "expecting a decimal number, from 0 to 9"
      [] base = 16 -> "expecting a hexadecimal number, from 0 to 9 or A to F"

\* kh_lexNumber after the digits of the integer int, which start at origin
lexNumberDigits(origin, base, errs, int) ==
    IF int.cursor = origin
    THEN [token |-> khToken_fromNone, cursor |-> int.cursor,
          errors |-> LexError(errs, int.cursor, lexBaseMessage(base))]
    ELSE IF \/ text[int.cursor] \in {U_e, U_E, U_p, U_P, U_DOT}
            \/ int.had_overflowed
    THEN lexNumberFloat(errs, kh_lexFloat(origin, base))
    ELSE lexIntSuffix(int.cursor, int.result) @@ [errors |-> errs]

lexNumberBase(errs, prefix) ==
    lexNumberDigits(prefix.cursor, prefix.base, errs,
                    kh_lexInt(prefix.cursor, prefix.base, -1))

kh_lexNumber(cur, errs) ==
    IF digitOf(text[cur]) > 9
    THEN [token |-> khToken_fromNone, cursor |-> cur,
          errors |-> LexError(errs, cur, "expecting a decimal number, from 0 to 9")]
    ELSE lexNumberBase(errs, lexBasePrefix(cur))

Operator(code) == Token("OPERATOR", code)
Delimiter(code) == Token("DELIMITER", code)

\* `X=` gives WITH, otherwise X alone gives ALONE
lexSymbolAssign(cur, with, alone) ==
    IF text[cur] = U_EQUAL THEN [token |-> with, cursor |-> cur + 1]
    ELSE [token |-> alone, cursor |-> cur]

\* the switch of kh_lexSymbol for every case but the two that raise an error;
\* cur is the cursor after the first code point chr
lexSymbolCase(chr, cur) ==
    CASE chr = U_COMMA -> [token |-> Delimiter("COMMA"), cursor |-> cur]
      [] chr = U_COLON -> [token |-> Delimiter("COLON"), cursor |-> cur]
      [] chr = U_SEMICOLON -> [token |-> Delimiter("SEMICOLON"), cursor |-> cur]
      [] chr = U_LPAREN -> [token |-> Delimiter("PARENTHESES_OPEN"), cursor |-> cur]
      [] chr = U_RPAREN -> [token |-> Delimiter("PARENTHESES_CLOSE"), cursor |-> cur]
      [] chr = U_LBRACE -> [token |-> Delimiter("CURLY_BRACKET_OPEN"), cursor |-> cur]
      [] chr = U_RBRACE -> [token |-> Delimiter("CURLY_BRACKET_CLOSE"), cursor |-> cur]
      [] chr = U_LBRACKET -> [token |-> Delimiter("SQUARE_BRACKET_OPEN"), cursor |-> cur]
      [] chr = U_RBRACKET -> [token |-> Delimiter("CURLY_BRACKET_CLOSE"), cursor |-> cur]
      [] chr = U_DOT ->
            IF text[cur] = U_DOT /\ text[cur + 1] = U_DOT
            THEN [token |-> Delimiter("ELLIPSIS"), cursor |-> cur + 2]
            ELSE [token |-> Delimiter("DOT"), cursor |-> cur]
      [] chr = U_PLUS ->
            IF text[cur] = U_PLUS THEN [token |-> Operator("INCREMENT"), cursor |-> cur + 1]
            ELSE IF text[cur] = U_EQUAL THEN [token |-> Operator("IADD"), cursor |-> cur + 1]
            ELSE [token |-> Operator("ADD"), cursor |-> cur]
      [] chr = U_MINUS ->
            IF text[cur] = U_MINUS THEN [token |-> Operator("DECREMENT"), cursor |-> cur + 1]
            ELSE IF text[cur] = U_EQUAL THEN [token |-> Operator("ISUB"), cursor |-> cur + 1]
            ELSE IF text[cur] = U_MORE THEN [token |-> Delimiter("ARROW"), cursor |-> cur + 1]
            ELSE [token |-> Operator("SUB"), cursor |-> cur]
      [] chr = U_STAR -> lexSymbolAssign(cur, Operator("IMUL"), Operator("MUL"))
      [] chr = U_SLASH -> lexSymbolAssign(cur, Operator("IDIV"), Operator("DIV"))
      [] chr = U_PERCENT -> lexSymbolAssign(cur, Operator("IMODULO"), Operator("MODULO"))
      [] chr = U_CARET -> lexSymbolAssign(cur, Operator("IPOWER"), Operator("POWER"))
      [] chr = U_EQUAL -> lexSymbolAssign(cur, Operator("EQUALS"), Operator("ASSIGN"))
      [] chr = U_AT -> [token |-> Operator("ID"), cursor |-> cur]
      [] chr = U_EXCLAMATION -> lexSymbolAssign(cur, Operator("NOT_EQUAL"), Delimiter("EXCLAMATION"))
      [] chr = U_LESS ->
            IF text[cur] = U_EQUAL THEN [token |-> Operator("ELESS"), cursor |-> cur + 1]
            ELSE IF text[cur] = U_LESS
            THEN lexSymbolAssign(cur + 1, Operator("IBIT_LSHIFT"), Operator("BIT_LSHIFT"))
            ELSE [token |-> Operator("LESS"), cursor |-> cur]
      [] chr = U_MORE ->
            IF text[cur] = U_EQUAL THEN [token |-> Operator("EMORE"), cursor |-> cur + 1]
            ELSE IF text[cur] = U_LESS
            THEN lexSymbolAssign(cur + 1, Operator("IBIT_RSHIFT"), Operator("BIT_RSHIFT"))
            ELSE [token |-> Operator("MORE"), cursor |-> cur]
      [] chr = U_TILDE -> lexSymbolAssign(cur, Operator("IBIT_XOR"), Operator("BIT_OR"))
      [] chr = U_AMPERSAND -> lexSymbolAssign(cur, Operator("IBIT_AND"), Operator("BIT_AND"))
      [] chr = U_PIPE -> lexSymbolAssign(cur, Operator("IBIT_OR"), Operator("BIT_OR"))

SymbolStarts ==
    {U_COMMA, U_COLON, U_SEMICOLON, U_LPAREN, U_RPAREN, U_LBRACE, U_RBRACE, U_LBRACKET, U_RBRACKET, U_DOT,
     U_PLUS, U_MINUS, U_STAR, U_SLASH, U_PERCENT, U_CARET, U_EQUAL, U_AT, U_EXCLAMATION, U_LESS,
     U_MORE, U_TILDE, U_AMPERSAND, U_PIPE}

kh_lexSymbol(cur, errs) ==
    IF text[cur] \in SymbolStarts
    THEN lexSymbolCase(text[cur], cur + 1) @@ [errors |-> errs]
    ELSE IF text[cur] = U_NUL
    THEN [token |-> khToken_fromNone, cursor |-> cur,
          errors |-> LexError(errs, cur, "expecting a token, met with a dead end")]
    ELSE [token |-> khToken_fromNone, cursor |-> cur,
          errors |-> LexError(errs, cur, "unknown character")]

\* CASE_OPERATOR and CASE_KEYWORD of kh_lexWord, in the order of the source
WordOperators ==
    << [word |-> <<U_n, U_o, U_t>>, code |-> "NOT"],
       [word |-> <<U_a, U_n, U_d>>, code |-> "AND"],
       [word |-> <<U_o, U_r>>, code |-> "OR"],
       [word |-> <<U_x, U_o, U_r>>, code |-> "XOR"] >>

WordKeywords ==
    << [word |-> <<U_i, U_m, U_p, U_o, U_r, U_t>>, code |-> "IMPORT"],
       [word |-> <<U_i, U_n, U_c, U_l, U_u, U_d, U_e>>, code |-> "INCLUDE"],
       [word |-> <<U_a, U_s>>, code |-> "AS"],
       [word |-> <<U_t, U_r, U_y>>, code |-> "TRY"],
       [word |-> <<U_d, U_e, U_f>>, code |-> "DEF"],
       [word |-> <<U_c, U_l, U_a, U_s, U_s>>, code |-> "CLASS"],
       [word |-> <<U_s, U_t, U_r, U_u, U_c, U_t>>, code |-> "STRUCT"],
       [word |-> <<U_e, U_n, U_u, U_m>>, code |-> "ENUM"],
       [word |-> <<U_a, U_l, U_i, U_a, U_s>>, code |-> "ALIAS"],
       [word |-> <<U_r, U_e, U_f>>, code |-> "REF"],
       [word |-> <<U_p, U_u, U_b, U_l, U_i, U_c>>, code |-> "PUBLIC"],
       [word |-> <<U_p, U_r, U_i, U_v, U_a, U_t, U_e>>, code |-> "PRIVATE"],
       [word |-> <<U_s, U_t, U_a, U_t, U_i, U_c>>, code |-> "STATIC"],
       [word |-> <<U_i, U_f>>, code |-> "IF"],
       [word |-> <<U_e, U_l, U_i, U_f>>, code |-> "ELIF"],
       [word |-> <<U_e, U_l, U_s, U_e>>, code |-> "ELSE"],
       [word |-> <<U_f, U_o, U_r>>, code |-> "FOR"],
       [word |-> <<U_w, U_h, U_i, U_l, U_e>>, code |-> "WHILE"],
       [word |-> <<U_d, U_o>>, code |-> "DO"],
       [word |-> <<U_b, U_r, U_e, U_a, U_k>>, code |-> "BREAK"],
       [word |-> <<U_c, U_o, U_n, U_t, U_i, U_n, U_u, U_e>>, code |-> "CONTINUE"],
       [word |-> <<U_r, U_e, U_t, U_u, U_r, U_n>>, code |-> "RETURN"] >>

RECURSIVE lexWordEnd(_)
lexWordEnd(cur) == IF iswalnum(text[cur]) THEN lexWordEnd(cur + 1) ELSE cur

\* the token of a word: an operator, a keyword or an identifier
lexWordToken(identifier) ==
    IF \E i \in DOMAIN WordOperators : WordOperators[i].word = identifier
    THEN Operator(WordOperators[
             CHOOSE i \in DOMAIN WordOperators : WordOperators[i].word = identifier].code)
    ELSE IF \E i \in DOMAIN WordKeywords : WordKeywords[i].word = identifier
    THEN Token("KEYWORD", WordKeywords[
             CHOOSE i \in DOMAIN WordKeywords : WordKeywords[i].word = identifier].code)
    ELSE Token("IDENTIFIER", identifier)

lexWordFrom(cur, end, errs) ==
    [token |-> lexWordToken(SubSeq(text, cur, end - 1)), cursor |-> end, errors |-> errs]

kh_lexWord(cur, errs) == lexWordFrom(cur, lexWordEnd(cur), errs)

\* the single character escapes of kh_lexChar
SimpleEscapes ==
    (U_0 :> U_NUL) @@ (U_n :> U_NL) @@ (U_r :> U_CR) @@
    (U_t :> U_TAB) @@ (U_v :> U_VT) @@ (U_b :> U_BS) @@
    (U_a :> U_BEL) @@ (U_f :> U_FF) @@ (U_BACKSLASH :> U_BACKSLASH) @@
    (U_SQUOTE :> U_SQUOTE) @@ (U_DQUOTE :> U_DQUOTE)

\* \x, \u, \U with LENGTH hexadecimal digits; cur is the cursor after the letter
lexCharHexValue(cur, length, errs, msg, r) ==
    [chr |-> r.result[1] + Limb * r.result[2], cursor |-> r.cursor,
     errors |-> IF r.cursor # cur + length THEN LexError(errs, r.cursor, msg) ELSE errs,
     returned |-> FALSE]

lexCharHex(cur, length, errs, msg) ==
    lexCharHexValue(cur, length, errs, msg, kh_lexInt(cur, 16, length))

\* kh_lexChar between its opening and its closing quote; returned is TRUE
\* where the code returns chr at once
lexCharBody(cur, with_quotes, is_byte, errs) ==
    IF text[cur] = U_BACKSLASH
    THEN LET e == text[cur + 1]
             after == cur + 2
         IN  IF e \in DOMAIN SimpleEscapes
             THEN [chr |-> SimpleEscapes[e], cursor |-> after, errors |-> errs,
                   returned |-> FALSE]
             ELSE IF e = U_x
             THEN lexCharHex(after, 2, errs,
                      "expecting 2 hexadecimal digits for 1 byte character, from 0 to 9 or A to F")
             ELSE IF e = U_u
             THEN IF is_byte
                  THEN [chr |-> 0, cursor |-> after - 1,
                        errors |-> LexError(errs, after - 1,
                            "only allowing one byte characters, 2 byte unicode escapes are not allowed"),
                        returned |-> FALSE]
                  ELSE lexCharHex(after, 4, errs,
                      "expecting 4 hexadecimal digits for 2 byte unicode character, from 0 to 9 or A to F")
             ELSE IF e = U_U
             THEN IF is_byte
                  THEN [chr |-> 0, cursor |-> after - 1,
                        errors |-> LexError(errs, after - 1,
                            "only allowing one byte characters, 4 byte unicode escapes are not allowed"),
                        returned |-> FALSE]
                  ELSE lexCharHex(after, 8, errs,
                      "expecting 8 hexadecimal digits for 4 byte unicode character, from 0 to 9 or A to F")
             ELSE IF e = U_NUL
             THEN [chr |-> 0, cursor |-> after - 1,
                   errors |-> LexError(errs, after - 1,
                       "expecting a backslash escape character, met with a dead end"),
                   returned |-> TRUE]
             ELSE [chr |-> 0, cursor |-> after - 1,
                   errors |-> LexError(errs, after - 1, "unknown backslash escape character"),
                   returned |-> FALSE]
    ELSE IF text[cur] = U_SQUOTE
    THEN [chr |-> 0, cursor |-> cur,
          errors |-> IF with_quotes
                     THEN LexError(errs, cur, "a character cannot be closed empty, did you mean U'\\''")
                     ELSE errs,
          returned |-> FALSE]
    ELSE IF text[cur] = U_NL
    THEN [chr |-> 0, cursor |-> cur,
          errors |-> LexError(errs, cur,
              "a newline instead of an inline character, did you mean U'\\n'"),
          returned |-> FALSE]
    ELSE IF text[cur] = U_NUL
    THEN [chr |-> 0, cursor |-> cur,
          errors |-> LexError(errs, cur, "expecting a character, met with a dead end"),
          returned |-> TRUE]
    ELSE IF is_byte /\ text[cur] > 255
    THEN [chr |-> text[cur], cursor |-> cur,
          errors |-> LexError(errs, cur,
              "only allowing one byte characters, unicode character is forbidden"),
          returned |-> FALSE]
    ELSE [chr |-> text[cur], cursor |-> cur + 1, errors |-> errs, returned |-> FALSE]

\* the opening quote of kh_lexChar
lexCharOpen(cur, with_quotes, errs) ==
    IF ~with_quotes THEN [cursor |-> cur, errors |-> errs]
    ELSE IF text[cur] = U_SQUOTE THEN [cursor |-> cur + 1, errors |-> errs]
    ELSE [cursor |-> cur,
          errors |-> LexError(errs, cur, "expecting a single quote opening for a character")]

\* the closing quote of kh_lexChar
lexCharClose(with_quotes, body) ==
    IF body.returned \/ ~with_quotes
    THEN [chr |-> body.chr, cursor |-> body.cursor, errors |-> body.errors]
    ELSE IF text[body.cursor] = U_SQUOTE
    THEN [chr |-> body.chr, cursor |-> body.cursor + 1, errors |-> body.errors]
    ELSE [chr |-> body.chr, cursor |-> body.cursor,
          errors |-> LexError(body.errors, body.cursor,
              "expecting a single quote closing of the character")]

lexCharQuoted(with_quotes, is_byte, open) ==
    lexCharClose(with_quotes, lexCharBody(open.cursor, with_quotes, is_byte, open.errors))

kh_lexChar(cur, with_quotes, is_byte, errs) ==
    lexCharQuoted(with_quotes, is_byte, lexCharOpen(cur, with_quotes, errs))

\* kh_lexString up to its loop
lexStringOpen(cur, errs) ==
    IF text[cur] = U_DQUOTE
    THEN IF text[cur + 1] = U_DQUOTE /\ text[cur + 2] = U_DQUOTE
         THEN [cursor |-> cur + 3, multiline |-> TRUE, errors |-> errs]
         ELSE [cursor |-> cur + 1, multiline |-> FALSE, errors |-> errs]
    ELSE [cursor |-> cur, multiline |-> FALSE,
          errors |-> LexError(errs, cur, "expecting a double quote for a string")]

\* khArray_push(&string, kh_lexChar(cursor, false, is_buffer, errors))
lexStringPush(string, r) ==
    [string |-> Append(string, r.chr), cursor |-> r.cursor, errors |-> r.errors,
     returned |-> FALSE]

\* one iteration of the loop of kh_lexString
lexStringIteration(cur, string, multiline, is_buffer, errs) ==
    LET c == text[cur]
    IN  IF c = U_DQUOTE
        THEN IF multiline
             THEN IF text[cur + 1] = U_DQUOTE /\ text[cur + 2] = U_DQUOTE
                  THEN [string |-> string, cursor |-> cur + 3, errors |-> errs, returned |-> TRUE]
                  ELSE [string |-> Append(string, U_DQUOTE), cursor |-> cur + 1,
                        errors |-> errs, returned |-> FALSE]
             ELSE [string |-> string, cursor |-> cur + 1, errors |-> errs, returned |-> TRUE]
        ELSE IF c = U_NL
        THEN IF multiline
             THEN [string |-> Append(string, U_NL), cursor |-> cur + 1,
                   errors |-> errs, returned |-> FALSE]
             ELSE [string |-> string, cursor |-> cur,
                   errors |-> LexError(errs, cur,
                       "a newline instead of an inline character, use U'\\n' or a multiline string instead"),
                   returned |-> FALSE]
        ELSE IF c = U_NUL
        THEN [string |-> string, cursor |-> cur,
              errors |-> LexError(errs, cur, "expecting a character, met with a dead end"),
              returned |-> TRUE]
        ELSE lexStringPush(string, kh_lexChar(cur, FALSE, is_buffer, errs))

ToByte_wide(chr) == chr

\* khArray_byte_push(&buffer, *chr): a char32_t stored into a byte
ToByte(chr) == chr % 256

RECURSIVE SkipSpace(_)
SkipSpace(cur) == IF iswspace(text[cur]) THEN SkipSpace(cur + 1) ELSE cur

RECURSIVE lexCommentEnd(_)
lexCommentEnd(cur) ==
    IF text[cur] = U_NL THEN cur + 1
    ELSE IF text[cur] = U_NUL THEN cur
    ELSE lexCommentEnd(cur + 1)

\* which branch of kh_lex the code point at cur (after whitespace) takes
lexBranch(cur) ==
    LET c == text[cur]
    IN  IF iswalpha(c)
        THEN IF c \in {U_b, U_B}
             THEN IF text[cur + 1] = U_SQUOTE THEN "byte"
                  ELSE IF text[cur + 1] = U_DQUOTE THEN "buffer"
                  ELSE "word"
             ELSE "word"
        ELSE IF digitOf(c) < 10 THEN "number"
        ELSE IF c = U_SQUOTE THEN "char"
        ELSE IF c = U_DQUOTE THEN "string"
        ELSE IF c = U_HASH THEN "comment"
        ELSE "symbol"

\* khToken_fromByte / khToken_fromChar of what kh_lexChar returned
lexCharToken(type, r) ==
    [token |-> Token(type, IF type = "BYTE" THEN ToByte(r.chr) ELSE r.chr),
     cursor |-> r.cursor, errors |-> r.errors]

\* kh_lex for every branch that does not enter kh_lexString
lexDirect(branch, cur, errs) ==
    CASE branch = "byte" -> lexCharToken("BYTE", kh_lexChar(cur + 1, TRUE, TRUE, errs))
      [] branch = "word" -> kh_lexWord(cur, errs)
      [] branch = "number" -> kh_lexNumber(cur, errs)
      [] branch = "char" -> lexCharToken("CHAR", kh_lexChar(cur, TRUE, FALSE, errs))
      [] branch = "comment" ->
            [token |-> Token("COMMENT", <<>>), cursor |-> lexCommentEnd(cur + 1), errors |-> errs]
      [] branch = "symbol" -> kh_lexSymbol(cur, errs)

NoLexing ==
    [start |-> 0, at |-> 0, string |-> <<>>, multiline |-> FALSE, is_buffer |-> FALSE,
     odd |-> FALSE]

LexRecord(start, at, end, token) == [start |-> start, at |-> at, end |-> end, token |-> token]

\* kh_lex entering kh_lexString at the opening quote
lexEnterString(at, is_buffer, open) ==
    /\ lexpc' = "string"
    /\ cursor' = open.cursor
    /\ lexErrors' = open.errors
    /\ lexing' = [start |-> cursor, at |-> at, string |-> <<>>,
                  multiline |-> open.multiline, is_buffer |-> is_buffer, odd |-> FALSE]
    /\ UNCHANGED tokens

\* kh_lex returning the token of r
lexReturn(start, at, r) ==
    /\ cursor' = r.cursor
    /\ lexErrors' = Kept(r.errors, MaxErrors)
    /\ tokens' = Append(tokens, LexRecord(start, at, r.cursor, r.token))
    /\ lexpc' = "idle"
    /\ lexing' = NoLexing

lexDispatch(at, branch) ==
    IF branch \in {"string", "buffer"}
    THEN lexEnterString(at, branch = "buffer",
             lexStringOpen(IF branch = "buffer" THEN at + 1 ELSE at, lexErrors))
    ELSE lexReturn(cursor, at, lexDirect(branch, at, lexErrors))

lexAt(at) == lexDispatch(at, lexBranch(at))

\* a call of kh_lex, up to its return or up to the loop of kh_lexString
kh_lex ==
    /\ lexpc = "idle"
    /\ Len(tokens) < MaxCalls
    /\ lexAt(SkipSpace(cursor))
    /\ UNCHANGED <<text, parseVars>>

lexStringToken(is_buffer, string) ==
    IF is_buffer
    THEN Token("BUFFER", [i \in 1..Len(string) |-> ToByte(string[i])])
    ELSE Token("STRING", string)

lexStringStep(r) ==
    IF r.returned
    THEN lexReturn(lexing.start, lexing.at,
             [token |-> lexStringToken(lexing.is_buffer, r.string),
              cursor |-> r.cursor, errors |-> r.errors])
    ELSE /\ cursor' = r.cursor
         /\ lexErrors' = Kept(r.errors, MaxErrors)
         /\ lexing' = [lexing EXCEPT !.string = Kept(r.string, MaxString),
                                     !.odd = ~lexing.odd]
         /\ UNCHANGED <<lexpc, tokens>>

\* one iteration of the loop of kh_lexString, and the return of kh_lex after it;
\* lexing.odd tells an iteration from the next
kh_lexString ==
    /\ lexpc = "string"
    /\ lexStringStep(lexStringIteration(cursor, lexing.string, lexing.multiline,
                                        lexing.is_buffer, lexErrors))
    /\ UNCHANGED <<text, parseVars>>

\* buffers of at most n code points of an alphabet, zero-terminated
Buffers(alphabet, n) ==
    {b \o <<U_NUL>> : b \in UNION {[1..k -> alphabet] : k \in 0..n}}

ParserIdle ==
    /\ source = <<>>
    /\ pcursor = 1
    /\ ppc = "off"
    /\ asts = <<>>
    /\ expression = <<>>
    /\ calls = <<>>
    /\ errors = <<>>

LexStart(buffers) ==
    /\ text \in buffers
    /\ cursor = 1
    /\ lexpc = "idle"
    /\ lexing = NoLexing
    /\ tokens = <<>>
    /\ lexErrors = <<>>
    /\ ParserIdle

LexAlphabet ==
    {U_DQUOTE, U_NL, U_b, U_x, U_BACKSLASH, U_SNOWMAN, U_SQUOTE, U_DOLLAR, U_SP, U_PLUS}

LexInit == LexStart(Buffers(LexAlphabet, MaxLen))

LexNext == kh_lex \/ kh_lexString

LexSpec == LexInit /\ [][LexNext]_vars


LexFairSpec == LexInit /\ [][LexNext]_vars /\ WF_vars(kh_lexString)

(***************************************************************************)
(* Number literals: buffers made of a few decimal digits and a tail.       *)
(***************************************************************************)
MaxTail == 3       \* code points after the leading digits of a number literal

NumberHeads == {<<U_4>>, <<U_0>>, <<U_4, U_2>>, <<U_0, U_0>>}

NumberTailAlphabet ==
    {U_b, U_B, U_s, U_S, U_l, U_L, U_u, U_U, U_f, U_F,
     U_d, U_D, U_i, U_I, U_x, U_e, U_DOT}

NumberBuffers ==
    {h \o t : h \in NumberHeads, t \in Buffers(NumberTailAlphabet, MaxTail)}

NumberInit == LexStart(NumberBuffers)

NumberNext == kh_lex

NumberSpec == NumberInit /\ [][NumberNext]_vars

(***************************************************************************)
(* C2, C3, C10: the lexer.                                                 *)
(***************************************************************************)

\* C2: kh_lex terminates on every zero-terminated input: once kh_lex has
\* entered kh_lexString, kh_lexString returns after finitely many iterations,
\* also on a raw newline in a string that is not triple-quoted and on a raw
\* code point above 255 in a byte buffer.
C2_LexStringReturns == (lexpc = "string") ~> (lexpc = "idle")

\* C3: when kh_lex is called with the cursor (after whitespace) not on the
\* terminating zero, the cursor after the call is strictly greater than
\* before the call, also when NONE is returned for unknown punctuation.
C3_CursorAdvances ==
    \A i \in DOMAIN tokens :
        text[tokens[i].at] # U_NUL => tokens[i].end > tokens[i].start

\* the suffix table of the specification, longest suffixes first
SuffixTable ==
    << [suffix |-> <<U_s, U_b>>, kind |-> "SBYTE"],
       [suffix |-> <<U_s, U_s>>, kind |-> "SHORT"],
       [suffix |-> <<U_s, U_l>>, kind |-> "LONG"],
       [suffix |-> <<U_u, U_b>>, kind |-> "BYTE"],
       [suffix |-> <<U_u, U_s>>, kind |-> "USHORT"],
       [suffix |-> <<U_u, U_l>>, kind |-> "ULONG"],
       [suffix |-> <<U_i, U_f>>, kind |-> "IFLOAT"],
       [suffix |-> <<U_i, U_d>>, kind |-> "IDOUBLE"],
       [suffix |-> <<U_b>>, kind |-> "BYTE"],
       [suffix |-> <<U_s>>, kind |-> "SHORT"],
       [suffix |-> <<U_l>>, kind |-> "LONG"],
       [suffix |-> <<U_u>>, kind |-> "UINT"],
       [suffix |-> <<U_f>>, kind |-> "FLOAT"],
       [suffix |-> <<U_d>>, kind |-> "DOUBLE"],
       [suffix |-> <<U_i>>, kind |-> "IDOUBLE"],
       [suffix |-> <<>>, kind |-> "INT"] >>

LowerCase(chr) == IF chr >= U_A /\ chr <= U_Z THEN chr + 32 ELSE chr

IsDecimalDigit(chr) == chr >= U_0 /\ chr <= U_9

RECURSIVE DecimalRunEnd(_)
DecimalRunEnd(p) == IF IsDecimalDigit(text[p]) THEN DecimalRunEnd(p + 1) ELSE p

SuffixMatches(p, suffix) ==
    /\ p + Len(suffix) - 1 <= Len(text)
    /\ \A k \in 1..Len(suffix) : LowerCase(text[p + k - 1]) = suffix[k]

\* the first, hence longest, entry of the table that matches at p
SuffixAt(p) ==
    SuffixTable[CHOOSE i \in DOMAIN SuffixTable :
                    /\ SuffixMatches(p, SuffixTable[i].suffix)
                    /\ \A j \in 1..(i - 1) : ~SuffixMatches(p, SuffixTable[j].suffix)]

\* a decimal integer literal starts at p: decimal digits not followed by what
\* makes the literal a floating point one
DecimalLiteralAt(p) ==
    /\ IsDecimalDigit(text[p])
    /\ text[DecimalRunEnd(p)] \notin {U_e, U_E, U_p, U_P, U_DOT}

\* the literal at p is a single 0 followed by the letter of a base prefix
BasePrefixAt(p) ==
    /\ text[p] = U_0
    /\ text[p + 1] \in {U_b, U_B, U_o, U_O, U_x, U_X}

SuffixRuleHolds(rec) ==
    LET digitsEnd == DecimalRunEnd(rec.at)
        expected == SuffixAt(digitsEnd)
    IN  /\ rec.token.type = expected.kind
        /\ rec.end = digitsEnd + Len(expected.suffix)

\* C10 as stated: for a decimal integer literal without overflow the token
\* kind is the one the suffix table gives for its suffix, and the cursor ends
\* immediately after the suffix.
C10_SuffixTableOriginal ==
    \A i \in DOMAIN tokens :
        DecimalLiteralAt(tokens[i].at) => SuffixRuleHolds(tokens[i])

\* C10 amended: the same, for every decimal integer literal except a single 0
\* directly followed by b, o or x (either case), which kh_lexNumber reads as
\* a base prefix.
C10_SuffixTable ==
    \A i \in DOMAIN tokens :
        (DecimalLiteralAt(tokens[i].at) /\ ~BasePrefixAt(tokens[i].at))
            => SuffixRuleHolds(tokens[i])

\* a literal with a two-letter suffix followed by a code point left unconsumed
C10_Witness ==
    \E i \in DOMAIN tokens :
        /\ DecimalLiteralAt(tokens[i].at)
        /\ ~BasePrefixAt(tokens[i].at)
        /\ tokens[i].token.type = "ULONG"
        /\ text[tokens[i].end] # U_NUL
        /\ tokens[i].end = DecimalRunEnd(tokens[i].at) + 2


(***************************************************************************)
(* The parser of src/src/parser.c.  Its buffer is modelled one lexical     *)
(* unit per position, so a cursor is an index into source and the begin of *)
(* a token is the index the token stands at.  A parsing function takes the *)
(* record s of what it reads and writes through its pointers:              *)
(*   s.cur   *cursor                                                       *)
(*   s.errs  the errors raised so far                                      *)
(*   s.e     the value the last returned function returned                 *)
(*   s.hung  TRUE once a loop repeats an iteration in an unchanged state,  *)
(*           i.e. the call never returns, and neither does its caller      *)
(*   s.memo  what the expression levels returned at the cursor s.memo.at   *)
(* and the record a of its other arguments.                                *)
(***************************************************************************)
Keyword(code) == Token("KEYWORD", code)
Identifier(name) == Token("IDENTIFIER", name)
Literal(type) == Token(type, "1")
Newline == Token("NEWLINE", "")
Comment == Token("COMMENT", "")
EndOfFile == Token("EOF", "")

NULL == 0

\* an optional_... pointer: NULL, or a pointer to a value
None == <<>>
Some(value) == <<value>>

\* kh_lexToken(&cursor): the token at the cursor and the cursor behind it;
\* the end of the buffer gives EOF and leaves the cursor where it is
kh_lexToken(p) ==
    IF p \in DOMAIN source
    THEN [token |-> source[p], cursor |-> p + 1]
    ELSE [token |-> EndOfFile, cursor |-> p]

token(s) == kh_lexToken(s.cur).token

isIgnored(type, ignore_newline) ==
    type = "COMMENT" \/ (type = "NEWLINE" /\ ignore_newline)

RECURSIVE currentCursor(_, _)
\* *cursor after currentToken: behind the last comment or newline it passed
currentCursor(p, ignore_newline) ==
    IF isIgnored(kh_lexToken(p).token.type, ignore_newline)
    THEN currentCursor(kh_lexToken(p).cursor, ignore_newline)
    ELSE p

\* the token currentToken returns is token(currentToken(s, ignore_newline))
currentToken(s, ignore_newline) ==
    [s EXCEPT !.cur = currentCursor(@, ignore_newline)]

RECURSIVE skipCursor(_, _)
skipCursor(p, ignore_newline) ==
    IF isIgnored(kh_lexToken(p).token.type, ignore_newline)
    THEN skipCursor(kh_lexToken(p).cursor, ignore_newline)
    ELSE kh_lexToken(p).cursor

skipUnstuck(origin, p) ==
    IF origin = p /\ kh_lexToken(p).token.type # "EOF" THEN p + 1 ELSE p

skipToken(s, ignore_newline) ==
    [s EXCEPT !.cur = skipUnstuck(@, skipCursor(@, ignore_newline))]

isEnd(p) == kh_lexToken(currentCursor(p, TRUE)).token.type = "EOF"

raiseError(s, ptr, message) ==
    [s EXCEPT !.errs = Append(@, [data |-> ptr, message |-> message])]

isKeyword(s, code) == token(s) = Keyword(code)
isDelimiter(s, code) == token(s) = Delimiter(code)
isOperator(s, code) == token(s) = Operator(code)

\* 'skipToken' when the token is the expected one, 'raiseError' otherwise
expectToken(s, expected, ignore_newline, message) ==
    IF token(s) = expected
    THEN skipToken(s, ignore_newline)
    ELSE raiseError(s, s.cur, message)

returns(s, value) == [s EXCEPT !.e = value]

\* the state a parsing function is entered in
Entry(p) ==
    [cur |-> p, errs |-> <<>>, e |-> NULL, hung |-> FALSE,
     memo |-> [at |-> NULL, a |-> NULL, r |-> <<>>]]

\* (khAstExpression){.begin = .., .end = .., .type = .., .<variant> = {..}}
khAstExpression(type, begin, end, variant) ==
    [type |-> type, begin |-> begin, end |-> end, v |-> variant]

Binary(origin, end, type, left, right) ==
    khAstExpression("BINARY", origin, end, [type |-> type, left |-> left, right |-> right])

Unary(origin, end, type, operand) ==
    khAstExpression("UNARY", origin, end, [type |-> type, operand |-> operand])

RECURSIVE call(_, _, _)

(***************************************************************************)
(* RCD_BINARY and RCD_BINARY_CASE: one level of left-to-right binary       *)
(* operators over the level LOWER.  OPERATORS are the operator tokens of   *)
(* the level; each names the binary expression type it maps to.            *)
(***************************************************************************)
RECURSIVE RCD_BINARY_CASE(_, _, _, _, _)
RCD_BINARY_CASE(LOWER, OPERATORS, origin, s, a) ==
    LET build(type, left, r) ==
            IF r.hung
            THEN r
            ELSE RCD_BINARY_CASE(LOWER, OPERATORS, origin,
                    currentToken(returns(r, Binary(origin, r.cur, type, left, r.e)),
                                 a.ignore_newline), a)
    IN  IF token(s).type = "OPERATOR" /\ token(s).value \in OPERATORS
        THEN build(token(s).value, s.e, call(LOWER, skipToken(s, a.ignore_newline), a))
        ELSE s

RCD_BINARY(LOWER, OPERATORS, s, a) ==
    LET loop(origin, r) ==
            IF r.hung \/ a.filter_type
            THEN r
            ELSE RCD_BINARY_CASE(LOWER, OPERATORS, origin,
                                 currentToken(r, a.ignore_newline), a)
    IN  loop(currentCursor(s.cur, a.ignore_newline),
             call(LOWER, currentToken(s, a.ignore_newline), a))


(***************************************************************************)
(* The expression levels, lowest precedence first.                         *)
(***************************************************************************)
\* EXPARSE_ARGS, and the arguments of exparseList
Args(ignore_newline, filter_type) ==
    [ignore_newline |-> ignore_newline, filter_type |-> filter_type]

ListArgs(opening_delimiter, closing_delimiter, ignore_newline, filter_type) ==
    [opening_delimiter |-> opening_delimiter, closing_delimiter |-> closing_delimiter,
     ignore_newline |-> ignore_newline, filter_type |-> filter_type]

InplaceOperators ==
    {"IADD", "ISUB", "IMUL", "IDIV", "IMOD", "IPOW", "IDOT", "ASSIGN",
     "IBIT_AND", "IBIT_OR", "IBIT_XOR", "IBIT_LSHIFT", "IBIT_RSHIFT"}

ComparisonOperators == {"EQUAL", "NOT_EQUAL", "LESS", "MORE", "ELESS", "EMORE"}

UnaryOperators == {"ADD", "SUB", "INCREMENT", "DECREMENT", "NOT", "BIT_NOT"}

\* the level with the type filter left off
exparseInplaceOperators_unfiltered(s, a) ==
    RCD_BINARY("exparseTernary", InplaceOperators, s, [a EXCEPT !.filter_type = FALSE])

exparseInplaceOperators(s, a) == RCD_BINARY("exparseTernary", InplaceOperators, s, a)

exparseTernary(s, a) ==
    LET RECURSIVE loop(_)
        nl == a.ignore_newline
        origin == currentCursor(s.cur, nl)
        build(value, condition, r) ==
            IF r.hung THEN r ELSE
            loop(currentToken(returns(r, khAstExpression("TERNARY", origin, r.cur,
                    [value |-> value, condition |-> condition, otherwise |-> r.e])), nl))
        otherwise(value, c) ==
            IF c.hung THEN c ELSE
            build(value, c.e, call("exparseLogicalOr",
                    expectToken(c, Keyword("ELSE"), nl,
                                "expecting an 'else' keyword after the condition"), a))
        loop(t) ==
            IF isKeyword(t, "IF")
            THEN otherwise(t.e, currentToken(call("exparseLogicalOr", skipToken(t, nl), a), nl))
            ELSE t
        first(r) == IF r.hung \/ a.filter_type THEN r ELSE loop(currentToken(r, nl))
    IN  first(call("exparseLogicalOr", currentToken(s, nl), a))

exparseLogicalOr(s, a) == RCD_BINARY("exparseLogicalXor", {"OR"}, s, a)

exparseLogicalXor(s, a) == RCD_BINARY("exparseLogicalAnd", {"XOR"}, s, a)

exparseLogicalAnd(s, a) == RCD_BINARY("exparseLogicalNot", {"AND"}, s, a)

exparseLogicalNot(s, a) ==
    LET nl == a.ignore_newline
        build(origin, r) ==
            IF r.hung THEN r ELSE returns(r, Unary(origin, r.cur, "NOT", r.e))
        not(t) ==
            IF isOperator(t, "NOT")
            THEN build(t.cur, call("exparseLogicalNot", skipToken(t, nl), a))
            ELSE call("exparseComparisonOperators", t, a)
    IN  IF a.filter_type
        THEN call("exparseComparisonOperators", s, a)
        ELSE not(currentToken(s, nl))

\* the level as one more level of binary operators
exparseComparisonOperators_binary(s, a) ==
    RCD_BINARY("exparseBitwiseOr", ComparisonOperators, s, a)

exparseComparisonOperators(s, a) ==
    LET RECURSIVE loop(_, _, _)
        nl == a.ignore_newline
        origin == currentCursor(s.cur, nl)
        compares(t) == token(t).type = "OPERATOR" /\ token(t).value \in ComparisonOperators
        operand(operations, operands, r) ==
            IF r.hung THEN r ELSE
            loop(operations, Append(operands, r.e), currentToken(r, nl))
        loop(operations, operands, t) ==
            IF compares(t)
            THEN operand(Append(operations, token(t).value), operands,
                         call("exparseBitwiseOr", skipToken(t, nl), a))
            ELSE returns(t, khAstExpression("COMPARISON", origin, t.cur,
                            [operations |-> operations, operands |-> operands]))
        first(t) == IF compares(t) THEN loop(<<>>, <<t.e>>, t) ELSE t
        lower(r) == IF r.hung \/ a.filter_type THEN r ELSE first(currentToken(r, nl))
    IN  lower(call("exparseBitwiseOr", currentToken(s, nl), a))

exparseBitwiseOr(s, a) == RCD_BINARY("exparseBitwiseXor", {"BIT_OR"}, s, a)

exparseBitwiseXor(s, a) == RCD_BINARY("exparseBitwiseAnd", {"BIT_XOR"}, s, a)

exparseBitwiseAnd(s, a) == RCD_BINARY("exparseBitwiseShifts", {"BIT_AND"}, s, a)

exparseBitwiseShifts(s, a) == RCD_BINARY("exparseAddSub", {"BIT_LSHIFT", "BIT_RSHIFT"}, s, a)

\* the level with the power level as its lower level
exparseAddSub_overPow(s, a) == RCD_BINARY("exparsePow", {"ADD", "SUB"}, s, a)

exparseAddSub(s, a) == RCD_BINARY("exparseMulDivMod", {"ADD", "SUB"}, s, a)

exparseMulDivMod_onlyMul(s, a) == RCD_BINARY("exparsePow", {"MUL"}, s, a)

exparseMulDivMod(s, a) == RCD_BINARY("exparsePow", {"MUL", "DIV", "MOD"}, s, a)

exparsePow(s, a) == RCD_BINARY("exparseUnary", {"POW"}, s, a)

\* the macro uses neither of its arguments: the operand is parsed by
\* exparseUnary and the node is a NOT whatever the operator
RCD_UNARY_CASE(FUNCTION, OPERATOR, origin, s, a) ==
    LET build(r) == IF r.hung THEN r ELSE returns(r, Unary(origin, r.cur, "NOT", r.e))
    IN  build(call("exparseUnary", skipToken(s, a.ignore_newline), a))

exparseUnary(s, a) ==
    LET unary(t) ==
            IF token(t).type = "OPERATOR" /\ token(t).value \in UnaryOperators
            THEN RCD_UNARY_CASE("exparseReverseUnary", token(t).value, t.cur, t, a)
            ELSE call("exparseReverseUnary", t, a)
    IN  IF a.filter_type
        THEN call("exparseReverseUnary", s, a)
        ELSE unary(currentToken(s, a.ignore_newline))

exparseReverseUnary(s, a) ==
    LET RECURSIVE loop(_)
        nl == a.ignore_newline
        origin == currentCursor(s.cur, nl)
        called(callee, r) ==
            IF r.hung THEN r ELSE
            loop(currentToken(returns(r, khAstExpression("CALL", origin, r.cur,
                    [callee |-> callee, arguments |-> r.e])), nl))
        indexed(indexee, r) ==
            IF r.hung THEN r ELSE
            loop(currentToken(returns(r, khAstExpression("INDEX", origin, r.cur,
                    [indexee |-> indexee, arguments |-> r.e])), nl))
        loop(t) ==
            IF isDelimiter(t, "PARENTHESIS_OPEN") /\ ~a.filter_type
            THEN called(t.e, call("exparseList", t,
                    ListArgs("PARENTHESIS_OPEN", "PARENTHESIS_CLOSE", nl, a.filter_type)))
            ELSE IF isDelimiter(t, "SQUARE_BRACKET_OPEN")
            THEN indexed(t.e, call("exparseList", t,
                    ListArgs("SQUARE_BRACKET_OPEN", "SQUARE_BRACKET_CLOSE", nl, a.filter_type)))
            ELSE IF (isOperator(t, "INCREMENT") \/ isOperator(t, "DECREMENT")) /\ ~a.filter_type
            \* the case leaves its own switch and falls into 'default: goto out'
            THEN currentToken(skipToken(
                    returns(t, Unary(origin, t.cur, "POST_INCREMENT", t.e)), nl), nl)
            ELSE t
        lower(r) == IF r.hung THEN r ELSE loop(currentToken(r, nl))
    IN  lower(call("exparseScopeTemplatization", currentToken(s, nl), a))

exparseScopeTemplatization(s, a) ==
    LET RECURSIVE loop(_)
        RECURSIVE scope(_, _, _)
        nl == a.ignore_newline
        origin == currentCursor(s.cur, nl)
        scopeName(value, scope_names, t) ==
            IF token(t).type = "IDENTIFIER"
            THEN scope(value, Append(scope_names, token(t).value),
                       currentToken(skipToken(t, nl), nl))
            ELSE scope(value, scope_names,
                       raiseError(t, t.cur, "expecting an identifier to scope into"))
        scope(value, scope_names, t) ==
            IF isDelimiter(t, "DOT")
            THEN scopeName(value, scope_names, currentToken(skipToken(t, nl), nl))
            ELSE loop(returns(t, khAstExpression("SCOPE", origin, t.cur,
                        [value |-> value, scope_names |-> scope_names])))
        templatized(value, r) ==
            IF r.hung THEN r ELSE
            returns(r, khAstExpression("TEMPLATIZE", origin, r.cur,
                        [value |-> value, template_arguments |-> r.e]))
        templatize(value, t) ==
            IF token(t).type = "IDENTIFIER"
            \* the identifier is not skipped; the loop ends on it
            THEN returns(t, khAstExpression("TEMPLATIZE", origin, t.cur,
                    [value |-> value,
                     template_arguments |->
                        <<khAstExpression("IDENTIFIER", NULL, NULL, token(t).value)>>]))
            ELSE IF isDelimiter(t, "PARENTHESIS_OPEN")
            \* token still is the parenthesis after the list: 'default: goto out'
            THEN templatized(value, call("exparseList", t,
                    ListArgs("PARENTHESIS_OPEN", "PARENTHESIS_CLOSE", nl, TRUE)))
            ELSE loop(raiseError(t, t.cur, "expecting a type argument for templatizing"))
        loop(t) ==
            IF isDelimiter(t, "DOT")
            THEN scope(t.e, <<>>, t)
            ELSE IF isDelimiter(t, "EXCLAMATION")
            THEN templatize(t.e, currentToken(skipToken(t, nl), nl))
            ELSE t
        lower(r) == IF r.hung THEN r ELSE loop(currentToken(r, nl))
    IN  lower(call("exparseOther", currentToken(s, nl), a))


LiteralTypes ==
    {"CHAR", "STRING", "BUFFER", "BYTE", "INTEGER", "UINTEGER",
     "FLOAT", "DOUBLE", "IFLOAT", "IDOUBLE"}

\* the message of the type filter for a literal token; integers pass the filter
exparseOtherMessage(type) ==
    CASE type = "CHAR" -> "expecting a type, not a character"
      [] type = "STRING" -> "expecting a type, not a string"
      [] type = "BUFFER" -> "expecting a type, not a buffer"
      [] type = "BYTE" -> "expecting a type, not a byte"
      [] type = "FLOAT" -> "expecting a type, not a floating-point number"
      [] type = "DOUBLE" -> "expecting a type, not a double floating-point number"
      [] type = "IFLOAT" -> "expecting a type, not an imaginary floating-point number"
      [] type = "IDOUBLE" ->
            "expecting a type, not an imaginary double floating-point number"

\* (khAstExpression){.type = khAstExpressionType_INVALID}
InvalidExpression == khAstExpression("INVALID", NULL, NULL, NULL)

exparseOther(s, a) ==
    LET nl == a.ignore_newline
        t == currentToken(s, nl)
        origin == currentCursor(s.cur, nl)
        filtered(message) == IF a.filter_type THEN raiseError(t, origin, message) ELSE t
        identifier(n) ==
            IF ~a.filter_type /\ isDelimiter(n, "COLON")
            THEN call("exparseVariableDeclaration", t, Args(nl, FALSE))
            ELSE returns(n, khAstExpression("IDENTIFIER", origin, n.cur, token(t).value))
        def(n) ==
            IF isDelimiter(n, "EXCLAMATION")
            THEN call("exparseFunctionType", t, Args(nl, FALSE))
            ELSE call("exparseLambda", filtered("expecting a type, not a lambda"),
                      Args(nl, FALSE))
        tuple(r) ==
            IF r.hung THEN r
            ELSE IF Len(r.e) = 1
            THEN returns(r, r.e[1])
            ELSE returns(r, khAstExpression("TUPLE", origin, r.cur, [values |-> r.e]))
        array(r) == IF r.hung THEN r ELSE returns(r, khAstExpression("ARRAY", NULL, NULL, [values |-> r.e]))
        literal(r) ==
            returns(r, khAstExpression(token(t).type, origin, r.cur, token(t).value))
    IN  CASE token(t).type = "IDENTIFIER" ->
                identifier(currentToken(skipToken(t, nl), nl))
          [] isKeyword(t, "DEF") ->
                def(currentToken(skipToken(t, nl), nl))
          [] isKeyword(t, "STATIC") \/ isKeyword(t, "WILD") \/ isKeyword(t, "REF") ->
                call("exparseVariableDeclaration",
                     filtered("expecting a type, not a variable declaration"),
                     Args(nl, FALSE))
          [] isDelimiter(t, "PARENTHESIS_OPEN") ->
                tuple(call("exparseList", t,
                        ListArgs("PARENTHESIS_OPEN", "PARENTHESIS_CLOSE", nl, a.filter_type)))
          [] isDelimiter(t, "SQUARE_BRACKET_OPEN") ->
                array(call("exparseList", filtered("expecting a type, not an array"),
                        ListArgs("SQUARE_BRACKET_OPEN", "SQUARE_BRACKET_CLOSE", nl,
                                 a.filter_type)))
          [] isDelimiter(t, "CURLY_BRACKET_OPEN") ->
                call("exparseDict", filtered("expecting a type, not a dict"), Args(nl, FALSE))
          [] token(t).type \in {"INTEGER", "UINTEGER"} ->
                literal(skipToken(t, nl))
          [] token(t).type \in LiteralTypes \ {"INTEGER", "UINTEGER"} ->
                literal(skipToken(filtered(exparseOtherMessage(token(t).type)), nl))
          [] token(t).type = "KEYWORD"
                /\ token(t).value \notin {"DEF", "STATIC", "WILD", "REF"} ->
                returns(skipToken(raiseError(t, origin,
                            "unexpected delimiter in an expression"), nl),
                        InvalidExpression)
          [] OTHER ->
                returns(skipToken(raiseError(t, origin,
                            "unexpected token in an expression"), nl),
                        InvalidExpression)

\* the arguments of sparseSpecifiers; is_incase and is_static are returned
SpecifierArgs(allow_incase, allow_static, ignore_newline) ==
    [allow_incase |-> allow_incase, allow_static |-> allow_static,
     ignore_newline |-> ignore_newline]

declaresType_ifNamed(t) == token(t).type = "IDENTIFIER"

\* if there is no assign op at first, it is a type
declaresType(t) == ~isOperator(t, "ASSIGN")

exparseVariableDeclaration(s, a) ==
    LET nl == a.ignore_newline
        origin == currentCursor(s.cur, nl)
        declaration(r) ==
            IF r.hung THEN r ELSE
            currentToken(returns(r, [is_static |-> r.e.is_static, is_wild |-> FALSE,
                                     is_ref |-> FALSE, name |-> NULL,
                                     optional_type |-> None,
                                     optional_initializer |-> None]), nl)
        wild(t) ==
            IF isKeyword(t, "WILD")
            THEN currentToken(skipToken([t EXCEPT !.e.is_wild = TRUE], nl), nl)
            ELSE t
        ref(t) ==
            IF isKeyword(t, "REF")
            THEN currentToken(skipToken([t EXCEPT !.e.is_ref = TRUE], nl), nl)
            ELSE t
        name(t) ==
            IF token(t).type = "IDENTIFIER"
            THEN currentToken(skipToken([t EXCEPT !.e.name = token(t).value], nl), nl)
            ELSE raiseError([t EXCEPT !.e.name = ""], t.cur,
                            "expecting a name for the variable in the declaration")
        colon(t) ==
            IF isDelimiter(t, "COLON")
            THEN currentToken(skipToken(t, nl), nl)
            ELSE raiseError(t, t.cur,
                    "expecting a colon to separate the name and the type of the variable")
        typed(d, r) == IF r.hung THEN r ELSE currentToken(returns(r, [d EXCEPT !.optional_type = Some(r.e)]), nl)
        type(t) ==
            IF declaresType(t)
            THEN typed(t.e, call("kh_parseExpression", t, Args(nl, TRUE)))
            ELSE t
        initialized(d, r) == IF r.hung THEN r ELSE returns(r, [d EXCEPT !.optional_initializer = Some(r.e)])
        initializer(t) ==
            IF t.hung THEN t
            ELSE IF isOperator(t, "ASSIGN")
            THEN initialized(t.e, call("kh_parseExpression", skipToken(t, nl),
                                       Args(nl, FALSE)))
            ELSE t
        node(r) == IF r.hung THEN r ELSE returns(r, khAstExpression("VARIABLE_DECLARATION", origin, r.cur, r.e))
    IN  node(initializer(type(colon(name(ref(wild(declaration(
            call("sparseSpecifiers", currentToken(s, nl),
                 SpecifierArgs(FALSE, TRUE, nl))))))))))

exparseFunctionType(s, a) ==
    LET RECURSIVE loop(_)
        nl == a.ignore_newline
        origin == currentCursor(s.cur, nl)
        function_type(t) ==
            returns(t, [are_arguments_refs |-> <<>>, argument_types |-> <<>>,
                        is_return_type_ref |-> FALSE, optional_return_type |-> None])
        def(t) ==
            IF isKeyword(t, "DEF")
            THEN currentToken(skipToken(t, nl), nl)
            ELSE raiseError(t, t.cur, "expecting a 'def' keyword")
        mark(t) ==
            IF isDelimiter(t, "EXCLAMATION")
            THEN currentToken(skipToken(t, nl), nl)
            ELSE raiseError(t, t.cur, "expecting an exclamation mark")
        open(t) ==
            IF isDelimiter(t, "PARENTHESIS_OPEN")
            THEN currentToken(skipToken(t, TRUE), TRUE)
            ELSE raiseError(t, t.cur, "expecting an opening parenthesis")
        next(t) ==
            IF isDelimiter(t, "COMMA")
            THEN loop(currentToken(skipToken(t, TRUE), TRUE))
            ELSE IF isDelimiter(t, "PARENTHESIS_CLOSE")
            THEN skipToken(t, TRUE)
            ELSE raiseError(t, t.cur,
                    "expecting a comma or another argument type after an argument type")
        argument(f, is_ref, r) ==
            IF r.hung THEN r ELSE
            next(currentToken(returns(r,
                    [f EXCEPT !.are_arguments_refs = Append(@, is_ref),
                              !.argument_types = Append(@, r.e)]), TRUE))
        loop(t) ==
            argument(t.e, isKeyword(t, "REF"),
                     call("kh_parseExpression",
                          IF isKeyword(t, "REF") THEN skipToken(t, TRUE) ELSE t,
                          Args(TRUE, TRUE)))
        list(t) ==
            IF isDelimiter(t, "CURLY_BRACKET_CLOSE") THEN skipToken(t, TRUE) ELSE loop(t)
        returned(f, r) ==
            IF r.hung THEN r ELSE returns(r, [f EXCEPT !.optional_return_type = Some(r.e)])
        return_ref(t) ==
            IF isKeyword(t, "REF")
            THEN skipToken([t EXCEPT !.e.is_return_type_ref = TRUE], nl)
            ELSE t
        return_type(t) ==
            returned(t.e, call("kh_parseExpression", t, Args(nl, TRUE)))
        arrow(t) ==
            IF t.hung THEN t
            ELSE IF isDelimiter(t, "ARROW")
            THEN return_type(return_ref(currentToken(skipToken(t, nl), nl)))
            ELSE t
        node(r) == IF r.hung THEN r ELSE returns(r, khAstExpression("FUNCTION_TYPE", origin, r.cur, r.e))
    IN  node(arrow(currentToken(list(open(mark(def(function_type(
            currentToken(s, nl)))))), nl)))

exparseLambda(s, a) ==
    LET nl == a.ignore_newline
        origin == currentCursor(s.cur, nl)
        def(t) ==
            IF isKeyword(t, "DEF")
            THEN currentToken(skipToken(t, nl), nl)
            ELSE raiseError(t, t.cur, "expecting a 'def' keyword")
        node(r) == IF r.hung THEN r ELSE returns(r, khAstExpression("LAMBDA", origin, r.cur, r.e))
    IN  node(call("sparseFunctionOrLambda", def(currentToken(s, nl)), NULL))

dictValue_ifValid(d, e) == IF e.type = "INVALID" THEN d ELSE [d EXCEPT !.values = Append(@, e)]

\* kharray_append(&dict.values, ..)
dictValue(d, e) == [d EXCEPT !.values = Append(@, e)]

exparseDict(s, a) ==
    LET RECURSIVE loop(_)
        nl == a.ignore_newline
        origin == currentCursor(s.cur, nl)
        open(t) ==
            IF isDelimiter(t, "CURLY_BRACKET_OPEN")
            THEN currentToken(skipToken(t, TRUE), TRUE)
            ELSE raiseError(t, t.cur, "expecting an opening curly bracket")
        next(t) ==
            IF isDelimiter(t, "COMMA")
            THEN loop(currentToken(skipToken(t, TRUE), TRUE))
            ELSE IF isDelimiter(t, "CURLY_BRACKET_CLOSE")
            THEN skipToken(t, TRUE)
            ELSE raiseError(t, t.cur,
                "expecting a comma with another pair of key and value or a closing delimiter")
        value(d, r) == IF r.hung THEN r ELSE next(currentToken(returns(r, dictValue(d, r.e)), TRUE))
        colon(t) ==
            IF isDelimiter(t, "COLON")
            THEN currentToken(skipToken(t, TRUE), TRUE)
            ELSE raiseError(t, t.cur, "expecting a colon after the key for its value pair")
        key(d, r) == IF r.hung THEN r ELSE currentToken(returns(r, [d EXCEPT !.keys = Append(@, r.e)]), TRUE)
        pair(t) == IF t.hung THEN t ELSE value(t.e, call("kh_parseExpression", colon(t), Args(TRUE, FALSE)))
        loop(t) == pair(key(t.e, call("kh_parseExpression", t, Args(TRUE, FALSE))))
        dict(t) ==
            IF isDelimiter(t, "CURLY_BRACKET_CLOSE") THEN skipToken(t, TRUE) ELSE loop(t)
        node(r) == IF r.hung THEN r ELSE returns(r, khAstExpression("DICT", origin, r.cur, r.e))
    IN  node(dict(open(returns(currentToken(s, nl), [keys |-> <<>>, values |-> <<>>]))))

exparseList(s, a) ==
    LET RECURSIVE loop(_)
        open(t) ==
            IF isDelimiter(t, a.opening_delimiter)
            THEN currentToken(skipToken(t, TRUE), TRUE)
            ELSE raiseError(t, t.cur, "expecting an opening delimiter")
        next(t) ==
            IF isDelimiter(t, "COMMA")
            THEN loop(currentToken(skipToken(t, TRUE), TRUE))
            ELSE IF isDelimiter(t, a.closing_delimiter)
            THEN skipToken(t, TRUE)
            ELSE raiseError(t, t.cur,
                    "expecting a comma with another element or a closing delimiter")
        element(expressions, r) ==
            IF r.hung THEN r ELSE
            next(currentToken(returns(r, Append(expressions, r.e)), TRUE))
        loop(t) == element(t.e, call("kh_parseExpression", t, Args(TRUE, a.filter_type)))
        list(t) ==
            IF isDelimiter(t, a.closing_delimiter) THEN skipToken(t, TRUE) ELSE loop(t)
    IN  list(open(returns(currentToken(s, a.ignore_newline), <<>>)))


(***************************************************************************)
(* The statement levels.                                                   *)
(***************************************************************************)
\* (khAst){.begin = .., .end = .., .type = .., .<variant> = ..}
khAst(type, begin, end, variant) ==
    [type |-> type, begin |-> begin, end |-> end, v |-> variant]

\* the end of a statement other than an expression statement: a newline, the
\* end of the buffer or a semicolon is skipped, a closing curly bracket is left
sparseEnd(t) ==
    IF token(t).type \in {"NEWLINE", "EOF"} \/ isDelimiter(t, "SEMICOLON")
    THEN skipToken(t, FALSE)
    ELSE IF isDelimiter(t, "CURLY_BRACKET_CLOSE")
    THEN t
    ELSE raiseError(t, t.cur, "expecting a newline or a semicolon")

\* the end without the skip that keeps the caller from the same token
sparseStatementEnd_keepsToken(n) ==
    IF token(n).type \in {"EOF", "NEWLINE"} \/ isDelimiter(n, "SEMICOLON")
    THEN skipToken(n, FALSE)
    ELSE IF isDelimiter(n, "CURLY_BRACKET_CLOSE")
    THEN n
    ELSE raiseError(n, n.cur, "expecting a newline or a semicolon")

\* the end of an expression statement: a newline, the end of the buffer or a
\* semicolon is skipped, a closing curly bracket is left, anything else is
\* an error and is skipped
sparseStatementEnd(n) ==
    IF token(n).type \in {"EOF", "NEWLINE"} \/ isDelimiter(n, "SEMICOLON")
    THEN skipToken(n, FALSE)
    ELSE IF isDelimiter(n, "CURLY_BRACKET_CLOSE")
    THEN n
    ELSE raiseError(skipToken(n, FALSE), n.cur, "expecting a newline or a semicolon")

sparseStatement(s, a) ==
    LET t == currentToken(s, TRUE)
        origin == currentCursor(s.cur, TRUE)
        \* the token behind the specifiers, read ahead with the cursor put back
        ahead == token(currentToken(call("sparseSpecifiers", t,
                                         SpecifierArgs(TRUE, TRUE, TRUE)), TRUE))
        \* the case the switches take
        case ==
            IF token(t).type = "EOF" THEN "EOF"
            ELSE IF token(t).type # "KEYWORD" THEN "out"
            ELSE IF token(t).value \in {"INCASE", "STATIC"}
            THEN IF ahead.type = "KEYWORD" /\ ahead.value \in {"DEF", "CLASS", "STRUCT", "ALIAS"}
                 THEN ahead.value
                 ELSE "out"
            ELSE token(t).value
        node(type, r) == IF r.hung THEN r ELSE returns(r, khAst(type, origin, r.cur, r.e))
        invalid(message) ==
            returns(raiseError(t, origin, message), khAst("INVALID", origin, origin, NULL))
        ended(n) == IF n.hung THEN n ELSE sparseStatementEnd(n)
    IN  CASE case = "IMPORT" -> node("IMPORT", call("sparseImport", t, NULL))
          [] case = "INCLUDE" -> node("INCLUDE", call("sparseInclude", t, NULL))
          [] case = "AS" -> invalid("unexpected keyword")
          [] case = "DEF" -> node("FUNCTION", call("sparseFunction", t, NULL))
          [] case = "CLASS" -> node("CLASS", call("sparseClass", t, NULL))
          [] case = "STRUCT" -> node("STRUCT", call("sparseStruct", t, NULL))
          [] case = "ENUM" -> node("ENUM", call("sparseEnum", t, NULL))
          [] case = "ALIAS" -> node("ALIAS", call("sparseAlias", t, NULL))
          [] case = "IF" -> node("IF_BRANCH", call("sparseIfBranch", t, NULL))
          [] case = "ELIF" -> invalid("no following if statement to have an elif statement")
          [] case = "ELSE" -> invalid("no following if statement to have an else statement")
          [] case = "FOR" -> call("sparseForLoop", t, NULL)
          [] case = "WHILE" -> node("WHILE_LOOP", call("sparseWhileLoop", t, NULL))
          [] case = "DO" -> node("DO_WHILE_LOOP", call("sparseDoWhileLoop", t, NULL))
          [] case = "BREAK" -> node("BREAK", call("sparseBreak", t, NULL))
          [] case = "CONTINUE" -> node("CONTINUE", call("sparseContinue", t, NULL))
          [] case = "RETURN" -> node("RETURN", call("sparseReturn", t, NULL))
          [] case = "EOF" -> invalid("expecting a statement, met with a dead end")
          [] OTHER ->
                node("EXPRESSION",
                     ended(currentToken(call("kh_parseExpression", t, Args(FALSE, FALSE)),
                                        FALSE)))

sparseBlock(s, a) ==
    LET RECURSIVE loop(_)
        open(t) ==
            IF isDelimiter(t, "CURLY_BRACKET_OPEN")
            THEN currentToken(skipToken(t, TRUE), TRUE)
            ELSE raiseError(t, t.cur, "expecting an opening curly bracket")
        \* a statement that left the cursor where it was is parsed again at
        \* the same token, and again: the loop never ends
        statement(block, from, r) ==
            IF r.hung THEN r ELSE IF r.cur = from
            THEN [returns(r, Append(block, r.e)) EXCEPT !.hung = TRUE]
            ELSE loop(currentToken(returns(r, Append(block, r.e)), TRUE))
        loop(t) ==
            IF isDelimiter(t, "CURLY_BRACKET_CLOSE")
            THEN skipToken(t, TRUE)
            ELSE IF token(t).type = "EOF"
            THEN raiseError(t, t.cur, "expecting a statement, met with a dead end")
            ELSE statement(t.e, t.cur, call("sparseStatement", t, NULL))
    IN  loop(open(returns(currentToken(s, TRUE), <<>>)))

sparseSpecifiers(s, a) ==
    LET RECURSIVE loop(_)
        nl == a.ignore_newline
        incase(t) ==
            IF ~a.allow_incase
            THEN raiseError(t, t.cur, "the 'incase' keyword is not allowed here")
            ELSE [t EXCEPT !.e.is_incase = TRUE]
        static(t) ==
            IF ~a.allow_static
            THEN raiseError(t, t.cur, "the 'static' keyword is not allowed here")
            ELSE [t EXCEPT !.e.is_static = TRUE]
        loop(t) ==
            IF isKeyword(t, "INCASE")
            THEN loop(currentToken(skipToken(incase(t), nl), nl))
            ELSE IF isKeyword(t, "STATIC")
            THEN loop(currentToken(skipToken(static(t), nl), nl))
            ELSE t
    IN  loop(returns(currentToken(s, nl), [is_incase |-> FALSE, is_static |-> FALSE]))

\* the common part of sparseImport and sparseInclude: the keyword, the dot of
\* a relative path and the dotted path
sparsePath(s, keyword, expected, something) ==
    LET RECURSIVE loop(_)
        first(t) ==
            IF isKeyword(t, keyword)
            THEN currentToken(skipToken(t, FALSE), FALSE)
            ELSE raiseError(t, t.cur, expected)
        relative(t) ==
            IF isDelimiter(t, "DOT")
            THEN currentToken(skipToken([t EXCEPT !.e.relative = TRUE], FALSE), FALSE)
            ELSE t
        head(t) ==
            IF token(t).type = "IDENTIFIER"
            THEN currentToken(skipToken([t EXCEPT !.e.path = Append(@, token(t).value)],
                                        FALSE), FALSE)
            ELSE raiseError(t, t.cur, something)
        another(t) ==
            IF token(t).type = "IDENTIFIER"
            THEN currentToken(skipToken([t EXCEPT !.e.path = Append(@, token(t).value)],
                                        FALSE), FALSE)
            ELSE raiseError(t, t.cur, "expecting another identifier")
        loop(t) ==
            IF isDelimiter(t, "DOT")
            THEN loop(another(currentToken(skipToken(t, FALSE), FALSE)))
            ELSE t
    IN  loop(head(relative(first(currentToken(s, TRUE)))))

\* the import without its 'as' part
sparseImport_withoutAlias(s, a) ==
    sparseEnd(sparsePath(
        returns(s, [path |-> <<>>, relative |-> FALSE, optional_alias |-> None]),
        "IMPORT", "expecting an 'import' keyword", "expecting something to import"))

sparseImport(s, a) ==
    LET alias(t) ==
            IF token(t).type = "IDENTIFIER"
            THEN currentToken(skipToken([t EXCEPT !.e.optional_alias = Some(token(t).value)],
                                        FALSE), FALSE)
            ELSE raiseError(t, t.cur,
                            "expecting an identifier to alias the imported module as")
        as(t) ==
            IF isKeyword(t, "AS")
            THEN alias(currentToken(skipToken(t, FALSE), FALSE))
            ELSE t
    IN  sparseEnd(as(sparsePath(
            returns(s, [path |-> <<>>, relative |-> FALSE, optional_alias |-> None]),
            "IMPORT", "expecting an 'import' keyword", "expecting something to import")))

sparseInclude(s, a) ==
    sparseEnd(sparsePath(returns(s, [path |-> <<>>, relative |-> FALSE]),
        "INCLUDE", "expecting an 'include' keyword", "expecting something to include"))

sparseFunctionOrLambda(s, a) ==
    LET RECURSIVE loop(_)
        close == Delimiter("PARENTHESIS_CLOSE")
        open(t) ==
            IF isDelimiter(t, "PARENTHESIS_OPEN")
            THEN currentToken(skipToken(t, TRUE), TRUE)
            ELSE raiseError(t, t.cur, "expecting an opening parenthesis for the arguments")
        closing(t) ==
            IF token(t) # close
            THEN raiseError(t, t.cur,
                            "expecting a closing parenthesis after the variadic argument")
            ELSE t
        variadic(f, r) ==
            IF r.hung THEN r ELSE closing(currentToken(
                returns(r, [f EXCEPT !.optional_variadic_argument = Some(r.e)]), TRUE))
        next(t) ==
            IF isDelimiter(t, "COMMA")
            THEN loop(currentToken(skipToken(t, TRUE), TRUE))
            ELSE IF token(t) = close
            THEN t
            ELSE IF token(t).type = "EOF"
            THEN raiseError(t, t.cur,
                    "expecting a comma with another argument or a closing parenthesis, met with a dead end")
            ELSE loop(currentToken(skipToken(raiseError(t, t.cur,
                    "expecting a comma with another argument or a closing parenthesis"),
                    TRUE), TRUE))
        argument(f, r) ==
            IF r.hung THEN r ELSE next(currentToken(returns(r, [f EXCEPT !.arguments = Append(@, r.e)]), TRUE))
        loop(t) ==
            IF token(t) = close
            THEN t
            ELSE IF isDelimiter(t, "ELLIPSIS")
            THEN variadic(t.e, call("exparseVariableDeclaration", skipToken(t, TRUE),
                                    Args(TRUE, FALSE)))
            ELSE argument(t.e, call("exparseVariableDeclaration", t, Args(TRUE, FALSE)))
        returned(f, r) == IF r.hung THEN r ELSE currentToken(returns(r, [f EXCEPT !.optional_return_type = Some(r.e)]), TRUE)
        return_ref(t) ==
            IF isKeyword(t, "REF")
            THEN skipToken([t EXCEPT !.e.is_return_type_ref = TRUE], TRUE)
            ELSE [t EXCEPT !.e.is_return_type_ref = FALSE]
        return_type(t) == returned(t.e, call("kh_parseExpression", t, Args(TRUE, TRUE)))
        arrow(t) ==
            IF isDelimiter(t, "ARROW")
            THEN return_type(return_ref(currentToken(skipToken(t, TRUE), TRUE)))
            ELSE t
        content(f, r) == IF r.hung THEN r ELSE returns(r, [f EXCEPT !.content = r.e])
        body(t) == content(t.e, call("sparseBlock", t, NULL))
    IN  body(arrow(currentToken(skipToken(loop(open(
            returns(currentToken(s, FALSE),
                    [arguments |-> <<>>, optional_variadic_argument |-> None,
                     is_return_type_ref |-> FALSE, optional_return_type |-> None,
                     content |-> <<>>]))), TRUE), TRUE)))

sparseFunction(s, a) ==
    LET \* 'token' is read before the specifiers and not again
        t == currentToken(s, TRUE)
        def(r) ==
            IF r.hung THEN r ELSE IF isKeyword(t, "DEF")
            THEN skipToken(r, FALSE)
            ELSE raiseError(r, t.cur, "expecting a 'def' keyword")
        named(f, r) ==
            IF r.hung THEN r ELSE returns(r, [is_incase |-> f.is_incase, is_static |-> f.is_static,
                        name_point |-> r.e])
        name(r) == named(r.e, call("kh_parseExpression", r, Args(FALSE, TRUE)))
        function(f, r) == IF r.hung THEN r ELSE returns(r, f @@ r.e)
        rest(r) == function(r.e, call("sparseFunctionOrLambda", r, NULL))
    IN  rest(name(def(call("sparseSpecifiers", t, SpecifierArgs(TRUE, TRUE, TRUE)))))


sparseClassOrStruct(s, a) ==
    LET RECURSIVE arguments(_)
        name(t) ==
            IF token(t).type = "IDENTIFIER"
            THEN currentToken(skipToken([t EXCEPT !.e.name = token(t).value], FALSE), FALSE)
            ELSE raiseError([t EXCEPT !.e.name = ""], t.cur, "expecting a name for the type")
        argument(t) ==
            IF token(t).type = "IDENTIFIER"
            THEN [t EXCEPT !.e.template_arguments = Append(@, token(t).value)]
            ELSE raiseError(t, t.cur, "expecting the name for a template argument")
        closed(t) ==
            IF isDelimiter(t, "PARENTHESIS_CLOSE")
            THEN currentToken(skipToken(t, FALSE), FALSE)
            ELSE raiseError(t, t.cur, "expecting a closing parenthesis")
        more(t) == IF isDelimiter(t, "COMMA") THEN arguments(t) ELSE closed(t)
        arguments(t) ==
            more(currentToken(skipToken(
                argument(currentToken(skipToken(t, TRUE), TRUE)), TRUE), TRUE))
        template(t) ==
            IF token(t).type = "IDENTIFIER"
            THEN currentToken(skipToken(
                    [t EXCEPT !.e.template_arguments = Append(@, token(t).value)],
                    FALSE), FALSE)
            ELSE IF isDelimiter(t, "PARENTHESIS_OPEN")
            THEN arguments(t)
            ELSE raiseError(t, t.cur, "expecting template argument(s)")
        templates(t) ==
            IF isDelimiter(t, "EXCLAMATION")
            THEN template(currentToken(skipToken(t, FALSE), FALSE))
            ELSE t
        baseClosed(t) ==
            IF isDelimiter(t, "PARENTHESIS_CLOSE")
            THEN skipToken(t, TRUE)
            ELSE raiseError(t, t.cur, "expecting a closing parenthesis")
        based(f, r) ==
            IF r.hung THEN r ELSE baseClosed(currentToken(returns(r, [f EXCEPT !.optional_base_type = Some(r.e)]), TRUE))
        base(t) ==
            IF isDelimiter(t, "PARENTHESIS_OPEN")
            THEN based(t.e, call("kh_parseExpression", skipToken(t, TRUE), Args(TRUE, TRUE)))
            ELSE t
        content(f, r) == IF r.hung THEN r ELSE returns(r, [f EXCEPT !.content = r.e])
        body(t) == content(t.e, call("sparseBlock", t, NULL))
    IN  body(base(templates(name(
            returns(currentToken(s, FALSE),
                    [name |-> NULL, template_arguments |-> <<>>,
                     optional_base_type |-> None, content |-> <<>>])))))

sparseClass(s, a) ==
    LET \* 'token' is read before the specifiers and not again
        t == currentToken(s, TRUE)
        class(r) ==
            IF r.hung THEN r ELSE IF isKeyword(t, "CLASS")
            THEN skipToken(r, FALSE)
            ELSE raiseError(r, t.cur, "expecting a 'class' keyword")
        node(f, r) == IF r.hung THEN r ELSE returns(r, [is_incase |-> f.is_incase] @@ r.e)
        rest(r) == node(r.e, call("sparseClassOrStruct", r, NULL))
    IN  rest(class(call("sparseSpecifiers", t, SpecifierArgs(TRUE, FALSE, TRUE))))

sparseStruct(s, a) ==
    LET \* 'token' is read before the specifiers and not again
        t == currentToken(s, TRUE)
        struct(r) ==
            IF r.hung THEN r ELSE IF isKeyword(t, "STRUCT")
            THEN skipToken(r, FALSE)
            ELSE raiseError(r, t.cur, "expecting a 'struct' keyword")
        node(f, r) == IF r.hung THEN r ELSE returns(r, [is_incase |-> f.is_incase] @@ r.e)
        rest(r) == node(r.e, call("sparseClassOrStruct", r, NULL))
    IN  rest(struct(call("sparseSpecifiers", t, SpecifierArgs(TRUE, FALSE, TRUE))))

\* sparseStatement enters sparseEnum at an 'enum' keyword only, so the
\* specifiers are empty and 'token' is the token at the cursor throughout
sparseEnum(s, a) ==
    LET RECURSIVE members(_)
        enum(t) ==
            IF isKeyword(t, "ENUM")
            THEN currentToken(skipToken(t, FALSE), FALSE)
            ELSE raiseError(t, t.cur, "expecting an 'enum' keyword")
        name(t) ==
            IF token(t).type = "IDENTIFIER"
            THEN currentToken(skipToken([t EXCEPT !.e.name = token(t).value], FALSE), FALSE)
            ELSE raiseError([t EXCEPT !.e.name = ""], t.cur,
                            "expecting a name for the enum type")
        member(t) ==
            IF token(t).type = "IDENTIFIER"
            THEN [t EXCEPT !.e.members = Append(@, token(t).value)]
            ELSE raiseError(t, t.cur, "expecting a member name")
        closed(t) ==
            IF isDelimiter(t, "CURLY_BRACKET_CLOSE")
            THEN skipToken(t, TRUE)
            ELSE raiseError(t, t.cur,
                    "expecting a comma with another member or a closing curly bracket")
        more(t) == IF isDelimiter(t, "COMMA") THEN members(t) ELSE closed(t)
        members(t) == more(currentToken(skipToken(member(t), TRUE), TRUE))
        body(t) ==
            IF isDelimiter(t, "CURLY_BRACKET_OPEN")
            THEN members(currentToken(skipToken(t, TRUE), TRUE))
            ELSE raiseError(t, t.cur, "expecting a 'class' keyword")
    IN  body(name(enum(returns(
            call("sparseSpecifiers", currentToken(s, TRUE), SpecifierArgs(FALSE, FALSE, TRUE)),
            [name |-> NULL, members |-> <<>>]))))

\* 'token' is read before the specifiers and read again only behind the
\* 'alias' keyword; before 'alias' it is an 'incase' or a 'static' keyword
sparseAlias(s, a) ==
    LET t == currentToken(s, TRUE)
        fresh == isKeyword(t, "ALIAS")
        alias(r) ==
            IF fresh
            THEN currentToken(skipToken(r, FALSE), FALSE)
            ELSE raiseError(r, t.cur, "expecting an 'alias' keyword")
        name(r) ==
            IF fresh /\ token(r).type = "IDENTIFIER"
            THEN currentToken(skipToken([r EXCEPT !.e.name = token(r).value], TRUE), TRUE)
            ELSE raiseError([r EXCEPT !.e.name = ""], IF fresh THEN r.cur ELSE t.cur,
                            "expecting a name for the alias")
        aliased(f, r) == IF r.hung THEN r ELSE sparseEnd(currentToken(returns(r, [f EXCEPT !.expression = r.e]), TRUE))
        value(r) == aliased(r.e, call("kh_parseExpression", r, Args(FALSE, FALSE)))
        declared(r) ==
            IF r.hung THEN r ELSE returns(r, [is_incase |-> r.e.is_incase, name |-> NULL,
                        expression |-> InvalidExpression])
    IN  value(name(alias(declared(
            call("sparseSpecifiers", t, SpecifierArgs(TRUE, FALSE, TRUE))))))

sparseIfBranch(s, a) ==
    LET RECURSIVE loop(_)
        if(t) ==
            IF isKeyword(t, "IF")
            THEN currentToken(skipToken(t, TRUE), FALSE)
            ELSE raiseError(t, t.cur, "expecting an 'if' keyword")
        else_content(f, r) == IF r.hung THEN r ELSE returns(r, [f EXCEPT !.else_content = r.e])
        else(t) ==
            IF isKeyword(t, "ELSE")
            THEN else_content(t.e, call("sparseBlock", skipToken(t, TRUE), NULL))
            ELSE t
        elif(t) == IF isKeyword(t, "ELIF") THEN loop(skipToken(t, TRUE)) ELSE else(t)
        content(f, r) ==
            IF r.hung THEN r ELSE elif(currentToken(returns(r, [f EXCEPT !.branch_contents = Append(@, r.e)]), TRUE))
        condition(f, r) ==
            IF r.hung THEN r ELSE content([f EXCEPT !.branch_conditions = Append(@, r.e)],
                    call("sparseBlock", r, NULL))
        loop(t) == condition(t.e, call("kh_parseExpression", t, Args(FALSE, FALSE)))
    IN  loop(if(returns(currentToken(s, TRUE),
                        [branch_conditions |-> <<>>, branch_contents |-> <<>>,
                         else_content |-> <<>>])))

sparseWhileLoop(s, a) ==
    LET while(t) ==
            IF isKeyword(t, "WHILE")
            THEN skipToken(t, TRUE)
            ELSE raiseError(t, t.cur, "expecting a 'while' keyword")
        content(c, r) == IF r.hung THEN r ELSE returns(r, [condition |-> c, content |-> r.e])
        condition(r) == IF r.hung THEN r ELSE content(r.e, call("sparseBlock", r, NULL))
    IN  condition(call("kh_parseExpression", while(currentToken(s, TRUE)),
                       Args(FALSE, FALSE)))

sparseDoWhileLoop(s, a) ==
    LET do(t) ==
            IF isKeyword(t, "DO")
            THEN skipToken(t, TRUE)
            ELSE raiseError(t, t.cur, "expecting a 'do' keyword")
        while(t) ==
            IF isKeyword(t, "WHILE")
            THEN skipToken(t, TRUE)
            ELSE raiseError(t, t.cur, "expecting a 'while' keyword")
        node(c, r) ==
            IF r.hung THEN r ELSE sparseEnd(currentToken(returns(r, [condition |-> r.e, content |-> c]), TRUE))
        condition(r) ==
            IF r.hung THEN r ELSE node(r.e, call("kh_parseExpression", while(currentToken(r, TRUE)),
                           Args(FALSE, FALSE)))
    IN  condition(call("sparseBlock", do(currentToken(s, TRUE)), NULL))

\* the kind from the number of expressions alone
sparseForLoopKind_ignoresIn(follows, size) ==
    IF size = 3 THEN "FOR_LOOP" ELSE "INVALID"

\* the kind of loop the header of a 'for' statement makes, from the token
\* behind its expressions and their number
sparseForLoopKind(follows, size) ==
    IF follows = Keyword("IN") THEN "FOR_EACH_LOOP"
    ELSE IF size = 3 THEN "FOR_LOOP"
    ELSE "INVALID"

sparseForLoop(s, a) ==
    LET RECURSIVE loop(_, _)
        origin == currentCursor(s.cur, TRUE)
        for(t) ==
            IF isKeyword(t, "FOR")
            THEN skipToken(t, TRUE)
            ELSE raiseError(t, t.cur, "expecting a 'for' keyword")
        for_each_loop(iterators, iteratee, r) ==
            IF r.hung THEN r ELSE returns(r, khAst("FOR_EACH_LOOP", origin, r.cur,
                        [iterators |-> iterators, iteratee |-> iteratee, content |-> r.e]))
        iteratee(iterators, r) ==
            IF r.hung THEN r ELSE for_each_loop(iterators, r.e, call("sparseBlock", r, NULL))
        for_loop(expressions, r) ==
            IF r.hung THEN r ELSE returns(r, khAst("FOR_LOOP", origin, r.cur,
                        [initial_expression |-> expressions[1],
                         loop_condition |-> expressions[2],
                         update_expression |-> expressions[3],
                         content |-> r.e]))
        kind(expressions, n, k) ==
            CASE k = "FOR_EACH_LOOP" ->
                    iteratee(expressions, call("kh_parseExpression", skipToken(n, TRUE),
                                               Args(FALSE, FALSE)))
              [] k = "FOR_LOOP" -> for_loop(expressions, call("sparseBlock", n, NULL))
              [] k = "INVALID" ->
                    returns(raiseError(n, n.cur,
                                "too many arguments for a non-for-each for loop"),
                            khAst("INVALID", origin, n.cur, NULL))
        next(expressions, n) ==
            IF isDelimiter(n, "COMMA")
            THEN loop(expressions, skipToken(n, TRUE))
            ELSE kind(expressions, n, sparseForLoopKind(token(n), Len(expressions)))
        element(expressions, r) == IF r.hung THEN r ELSE next(Append(expressions, r.e), currentToken(r, TRUE))
        loop(expressions, r) ==
            element(expressions, call("kh_parseExpression", r, Args(FALSE, FALSE)))
    IN  loop(<<>>, for(currentToken(s, TRUE)))

sparseBreak(s, a) ==
    LET break(t) ==
            IF isKeyword(t, "BREAK")
            THEN currentToken(skipToken(t, TRUE), TRUE)
            ELSE raiseError(t, t.cur, "expecting a 'break' keyword")
    IN  returns(sparseEnd(break(currentToken(s, TRUE))), NULL)

sparseContinue(s, a) ==
    LET continue(t) ==
            IF isKeyword(t, "CONTINUE")
            THEN currentToken(skipToken(t, TRUE), TRUE)
            ELSE raiseError(t, t.cur, "expecting a 'continue' keyword")
    IN  returns(sparseEnd(continue(currentToken(s, TRUE))), NULL)

sparseReturn(s, a) ==
    LET RECURSIVE loop(_, _)
        return(t) ==
            IF isKeyword(t, "RETURN")
            THEN currentToken(skipToken(t, TRUE), TRUE)
            ELSE raiseError(t, t.cur, "expecting a 'return' keyword")
        next(values, n) ==
            IF isDelimiter(n, "COMMA")
            THEN loop(values, skipToken(n, TRUE))
            ELSE returns(sparseEnd(n), [values |-> values])
        element(values, r) == IF r.hung THEN r ELSE next(Append(values, r.e), currentToken(r, TRUE))
        loop(values, r) == element(values, call("kh_parseExpression", r, Args(FALSE, FALSE)))
        instant(t) ==
            IF token(t).type \in {"NEWLINE", "EOF"} \/ isDelimiter(t, "SEMICOLON")
            THEN returns(skipToken(t, FALSE), [values |-> <<>>])
            ELSE loop(<<>>, t)
    IN  instant(return(currentToken(s, TRUE)))

kh_parseAst(s, a) == call("sparseStatement", s, a)

kh_parseExpression(s, a) == call("exparseInplaceOperators", s, a)

\* the body of the function named fn (the prototypes of the parsing levels)
run(fn, s, a) ==
    CASE fn = "sparseStatement" -> sparseStatement(s, a)
      [] fn = "sparseBlock" -> sparseBlock(s, a)
      [] fn = "sparseSpecifiers" -> sparseSpecifiers(s, a)
      [] fn = "sparseImport" -> sparseImport(s, a)
      [] fn = "sparseInclude" -> sparseInclude(s, a)
      [] fn = "sparseFunctionOrLambda" -> sparseFunctionOrLambda(s, a)
      [] fn = "sparseFunction" -> sparseFunction(s, a)
      [] fn = "sparseClassOrStruct" -> sparseClassOrStruct(s, a)
      [] fn = "sparseClass" -> sparseClass(s, a)
      [] fn = "sparseStruct" -> sparseStruct(s, a)
      [] fn = "sparseEnum" -> sparseEnum(s, a)
      [] fn = "sparseAlias" -> sparseAlias(s, a)
      [] fn = "sparseIfBranch" -> sparseIfBranch(s, a)
      [] fn = "sparseWhileLoop" -> sparseWhileLoop(s, a)
      [] fn = "sparseDoWhileLoop" -> sparseDoWhileLoop(s, a)
      [] fn = "sparseForLoop" -> sparseForLoop(s, a)
      [] fn = "sparseBreak" -> sparseBreak(s, a)
      [] fn = "sparseContinue" -> sparseContinue(s, a)
      [] fn = "sparseReturn" -> sparseReturn(s, a)
      [] fn = "kh_parseExpression" -> kh_parseExpression(s, a)
      [] fn = "exparseInplaceOperators" -> exparseInplaceOperators(s, a)
      [] fn = "exparseTernary" -> exparseTernary(s, a)
      [] fn = "exparseLogicalOr" -> exparseLogicalOr(s, a)
      [] fn = "exparseLogicalXor" -> exparseLogicalXor(s, a)
      [] fn = "exparseLogicalAnd" -> exparseLogicalAnd(s, a)
      [] fn = "exparseLogicalNot" -> exparseLogicalNot(s, a)
      [] fn = "exparseComparisonOperators" -> exparseComparisonOperators(s, a)
      [] fn = "exparseBitwiseOr" -> exparseBitwiseOr(s, a)
      [] fn = "exparseBitwiseXor" -> exparseBitwiseXor(s, a)
      [] fn = "exparseBitwiseAnd" -> exparseBitwiseAnd(s, a)
      [] fn = "exparseBitwiseShifts" -> exparseBitwiseShifts(s, a)
      [] fn = "exparseAddSub" -> exparseAddSub(s, a)
      [] fn = "exparseMulDivMod" -> exparseMulDivMod(s, a)
      [] fn = "exparsePow" -> exparsePow(s, a)
      [] fn = "exparseUnary" -> exparseUnary(s, a)
      [] fn = "exparseReverseUnary" -> exparseReverseUnary(s, a)
      [] fn = "exparseScopeTemplatization" -> exparseScopeTemplatization(s, a)
      [] fn = "exparseOther" -> exparseOther(s, a)
      [] fn = "exparseVariableDeclaration" -> exparseVariableDeclaration(s, a)
      [] fn = "exparseFunctionType" -> exparseFunctionType(s, a)
      [] fn = "exparseLambda" -> exparseLambda(s, a)
      [] fn = "exparseDict" -> exparseDict(s, a)
      [] fn = "exparseList" -> exparseList(s, a)

\* the expression levels, each the caller of the next
ExparseLevels ==
    <<"exparseInplaceOperators", "exparseTernary", "exparseLogicalOr", "exparseLogicalXor",
      "exparseLogicalAnd", "exparseLogicalNot", "exparseComparisonOperators",
      "exparseBitwiseOr", "exparseBitwiseXor", "exparseBitwiseAnd", "exparseBitwiseShifts",
      "exparseAddSub", "exparseMulDivMod", "exparsePow", "exparseUnary",
      "exparseReverseUnary", "exparseScopeTemplatization", "exparseOther">>

LevelOf(fn) == CHOOSE level \in DOMAIN ExparseLevels : ExparseLevels[level] = fn

\* the level a descent from 'level' at the token at p ends in: a level calls
\* the next one at the token it is entered at, but for exparseLogicalNot at a
\* 'not' and exparseUnary at a unary operator, which skip the operator first
Bottom(level, p, a) ==
    LET t == kh_lexToken(p).token
    IN  IF a.filter_type \/ t.type # "OPERATOR" THEN Len(ExparseLevels)
    ELSE IF t.value = "NOT" /\ level <= LevelOf("exparseLogicalNot")
    THEN LevelOf("exparseLogicalNot")
    ELSE IF t.value \in UnaryOperators /\ level <= LevelOf("exparseUnary")
    THEN LevelOf("exparseUnary")
    ELSE Len(ExparseLevels)

\* a function's result depends on the cursor and the arguments it is called
\* with and on nothing else: what it returned at a cursor is what it returns
\* there again
returned(s, r) ==
    [s EXCEPT !.cur = r.cur, !.errs = @ \o r.errs, !.e = r.e, !.hung = r.hung]

known(s, level, r) ==
    [s EXCEPT !.memo.r = @ @@ (level :> [cur |-> r.cur, errs |-> r.errs, e |-> r.e,
                                         hung |-> r.hung]),
              !.hung = r.hung, !.cur = IF r.hung THEN r.cur ELSE @,
              !.errs = IF r.hung THEN r.errs ELSE @, !.e = IF r.hung THEN r.e ELSE @]

RECURSIVE descent(_, _, _, _)
\* the levels below 'top' down to 'level', the lowest called first: each
\* returns before the level above goes on
descent(level, top, s, a) ==
    IF level <= top \/ s.hung
    THEN s
    ELSE descent(level - 1, top, known(s, level, run(ExparseLevels[level], s, a)), a)

descend(level, p, s, a) ==
    LET lower == descent(Bottom(level, p, a), level,
                         [Entry(p) EXCEPT !.memo = [at |-> p, a |-> a, r |-> <<>>]], a)
    IN  IF s.memo.at = p /\ s.memo.a = a /\ level \in DOMAIN s.memo.r
        THEN returned(s, s.memo.r[level])
        ELSE IF lower.hung
        THEN returned(s, lower)
        ELSE returned(s, run(ExparseLevels[level], lower, a))

\* a call of the function named fn; a call that does not return is the last
call(fn, s, a) ==
    IF s.hung
    THEN s
    ELSE IF \E level \in DOMAIN ExparseLevels : ExparseLevels[level] = fn
    THEN descend(LevelOf(fn), currentCursor(s.cur, a.ignore_newline), s, a)
    ELSE run(fn, s, a)


(***************************************************************************)
(* kh_parse, one step per round of its loop, and a caller of               *)
(* kh_parseExpression.                                                     *)
(***************************************************************************)
MaxTokens == 3     \* tokens of a buffer kh_parse is given
MaxHeader == 7     \* tokens between 'for' and the block of a for statement
MaxChain == 2      \* operators in a chain of operands and binary operators
MaxList == 4       \* tokens behind the opening parenthesis of a list

\* what the model keeps of the arrays the loop of kh_parse grows
MaxAsts == MaxTokens + MaxHeader + 4

\* a round of `while (!isEnd(&cursor)) kharray_append(&asts, kh_parseAst(&cursor))`;
\* a call of kh_parseAst that never returns leaves kh_parse in "block"
kh_parse_append ==
    /\ ppc = "parse"
    /\ ~isEnd(pcursor)
    /\ \E r \in {kh_parseAst(Entry(pcursor), NULL)} :
        /\ ppc' = IF r.hung THEN "block" ELSE "parse"
        /\ pcursor' = r.cur
        /\ asts' = IF r.hung THEN asts ELSE Kept(Append(asts, r.e), MaxAsts)
        /\ errors' = Kept(errors \o r.errs, MaxAsts)
        /\ calls' = Kept(Append(calls, [begin |-> currentCursor(pcursor, TRUE),
                                        end |-> r.cur, hung |-> r.hung]), MaxAsts)
    /\ UNCHANGED <<source, expression>>
    /\ UNCHANGED lexVars

kh_parse_return ==
    /\ ppc = "parse"
    /\ isEnd(pcursor)
    /\ ppc' = "done"
    /\ UNCHANGED <<source, pcursor, asts, expression, calls, errors>>
    /\ UNCHANGED lexVars

\* a caller's kh_parseExpression(&cursor, ignore_newline, filter_type) at
\* the start of the buffer
kh_parseExpression_call ==
    /\ ppc = "expr"
    /\ \E ignore_newline \in BOOLEAN, filter_type \in BOOLEAN :
        \E r \in {kh_parseExpression(Entry(pcursor), Args(ignore_newline, filter_type))} :
            /\ ppc' = IF r.hung THEN "block" ELSE "done"
            /\ pcursor' = r.cur
            /\ expression' = <<[e |-> r.e, begin |-> pcursor, end |-> r.cur,
                                ignore_newline |-> ignore_newline,
                                filter_type |-> filter_type, hung |-> r.hung]>>
            /\ errors' = r.errs
    /\ UNCHANGED <<source, asts, calls>>
    /\ UNCHANGED lexVars

LexerIdle ==
    /\ text = <<U_NUL>>
    /\ cursor = 1
    /\ lexpc = "idle"
    /\ lexing = NoLexing
    /\ tokens = <<>>
    /\ lexErrors = <<>>

ParserStart(buffers, pc) ==
    /\ source \in buffers
    /\ pcursor = 1
    /\ ppc = pc
    /\ asts = <<>>
    /\ expression = <<>>
    /\ calls = <<>>
    /\ errors = <<>>
    /\ LexerIdle

Sources(alphabet, n) == UNION {[1..k -> alphabet] : k \in 0..n}

id_x == Identifier("x")
id_y == Identifier("y")

StatementAlphabet ==
    {Keyword("AS"), Keyword("ELIF"), Keyword("ELSE"), Keyword("DO"), id_x,
     Delimiter("CURLY_BRACKET_OPEN"), Delimiter("CURLY_BRACKET_CLOSE"), Newline}

HeaderAlphabet == {id_x, Delimiter("COMMA"), Keyword("IN")}

EmptyBlock == <<Delimiter("CURLY_BRACKET_OPEN"), Delimiter("CURLY_BRACKET_CLOSE")>>

ForSources ==
    {<<Keyword("FOR")>> \o header \o EmptyBlock : header \in Sources(HeaderAlphabet, MaxHeader)}

ParseInit == ParserStart(Sources(StatementAlphabet, MaxTokens) \cup ForSources, "parse")

ParseNext == kh_parse_append \/ kh_parse_return

ParseSpec == ParseInit /\ [][ParseNext]_vars

MaxType == 3       \* tokens of a buffer parsed as a type or as a value

id_a == Identifier("a")
id_b == Identifier("b")
id_c == Identifier("c")

\* the operators of the binary levels from 'or' to the multiplication, the
\* power operator and the comparison operators
LevelOperators ==
    {"OR", "XOR", "AND", "BIT_OR", "BIT_XOR", "BIT_AND", "BIT_LSHIFT", "BIT_RSHIFT",
     "ADD", "SUB", "MUL", "DIV", "MOD"}

Comparisons == {"EQUAL", "NOT_EQUAL", "LESS", "MORE", "ELESS", "EMORE"}

ChainOperators == LevelOperators \cup {"POW"} \cup Comparisons

\* a, a p b, a p b q c, ..
Chain(operators) ==
    [i \in 1..(2 * Len(operators) + 1) |->
        IF i % 2 = 0 THEN Operator(operators[i \div 2])
        ELSE IF i = 1 THEN id_a ELSE IF i = 3 THEN id_b ELSE id_c]

ChainSources == {Chain(operators) : operators \in Sources(ChainOperators, MaxChain)}

ListAlphabet == {Delimiter("PARENTHESIS_CLOSE"), Delimiter("COMMA"), id_x, id_y}

ListSources ==
    {<<Delimiter("PARENTHESIS_OPEN")>> \o list : list \in Sources(ListAlphabet, MaxList)}

TypeAlphabet ==
    {id_x, Literal("INTEGER"), Operator("ASSIGN"), Operator("NOT"), Operator("LESS"),
     Keyword("IF"), Keyword("ELSE"), Delimiter("COLON"),
     Delimiter("CURLY_BRACKET_OPEN"), Delimiter("CURLY_BRACKET_CLOSE")}

EmptyArray == <<Delimiter("SQUARE_BRACKET_OPEN"), Delimiter("SQUARE_BRACKET_CLOSE")>>

EmptyLambda ==
    <<Keyword("DEF"), Delimiter("PARENTHESIS_OPEN"), Delimiter("PARENTHESIS_CLOSE")>>
        \o EmptyBlock

AtomSources ==
    {<<Literal(type)>> : type \in LiteralTypes}
        \cup {EmptyArray, EmptyBlock, EmptyLambda,
              <<Keyword("DEF"), Delimiter("PARENTHESIS_OPEN"),
                Delimiter("PARENTHESIS_CLOSE"), Delimiter("CURLY_BRACKET_OPEN"),
                Operator("NOT"), id_x, Delimiter("CURLY_BRACKET_CLOSE")>>,
              <<Keyword("DEF"), Delimiter("PARENTHESIS_OPEN"),
                Delimiter("PARENTHESIS_CLOSE"), Delimiter("CURLY_BRACKET_OPEN"),
                Keyword("AS"), Delimiter("CURLY_BRACKET_CLOSE")>>,
              <<Keyword("STATIC"), id_x, Delimiter("COLON"), id_y, Operator("ASSIGN"),
                Operator("NOT"), id_x>>}

ExprInit ==
    ParserStart(ChainSources \cup ListSources \cup AtomSources
                    \cup Sources(TypeAlphabet, MaxType), "expr")

ExprNext == kh_parseExpression_call

ExprSpec == ExprInit /\ [][ExprNext]_vars


(***************************************************************************)
(* The nodes of a syntax tree.                                             *)
(***************************************************************************)
RECURSIVE Concat(_)
Concat(arrays) ==
    IF Len(arrays) = 0 THEN <<>> ELSE Head(arrays) \o Concat(Tail(arrays))

RECURSIVE StatementExpressions(_)
\* the expressions of a statement and of the statements of its blocks
StatementExpressions(ast) ==
    LET v == ast.v
        block(content) ==
            Concat([i \in 1..Len(content) |-> StatementExpressions(content[i])])
    IN  CASE ast.type = "EXPRESSION" -> <<v>>
          [] ast.type = "FUNCTION" ->
                <<v.name_point>> \o v.arguments \o v.optional_variadic_argument
                    \o v.optional_return_type \o block(v.content)
          [] ast.type \in {"CLASS", "STRUCT"} -> v.optional_base_type \o block(v.content)
          [] ast.type = "ALIAS" -> <<v.expression>>
          [] ast.type = "IF_BRANCH" ->
                v.branch_conditions \o block(Concat(v.branch_contents) \o v.else_content)
          [] ast.type \in {"WHILE_LOOP", "DO_WHILE_LOOP"} ->
                <<v.condition>> \o block(v.content)
          [] ast.type = "FOR_LOOP" ->
                <<v.initial_expression, v.loop_condition, v.update_expression>>
                    \o block(v.content)
          [] ast.type = "FOR_EACH_LOOP" ->
                v.iterators \o <<v.iteratee>> \o block(v.content)
          [] ast.type = "RETURN" -> v.values
          [] OTHER -> <<>>

\* the expressions an expression is made of
Children(e) ==
    LET v == e.v
    IN  CASE e.type = "UNARY" -> <<v.operand>>
          [] e.type = "BINARY" -> <<v.left, v.right>>
          [] e.type = "TERNARY" -> <<v.value, v.condition, v.otherwise>>
          [] e.type = "COMPARISON" -> v.operands
          [] e.type = "CALL" -> <<v.callee>> \o v.arguments
          [] e.type = "INDEX" -> <<v.indexee>> \o v.arguments
          [] e.type = "SCOPE" -> <<v.value>>
          [] e.type = "TEMPLATIZE" -> <<v.value>> \o v.template_arguments
          [] e.type \in {"TUPLE", "ARRAY"} -> v.values
          [] e.type = "DICT" -> v.keys \o v.values
          [] e.type = "VARIABLE_DECLARATION" -> v.optional_type \o v.optional_initializer
          [] e.type = "FUNCTION_TYPE" -> v.argument_types \o v.optional_return_type
          [] e.type = "LAMBDA" ->
                v.arguments \o v.optional_variadic_argument \o v.optional_return_type
                    \o Concat([i \in 1..Len(v.content) |-> StatementExpressions(v.content[i])])
          [] OTHER -> <<>>

RECURSIVE Nodes(_, _)
\* e and the expressions in it, those inside a node of a type in 'opaque' left out
Nodes(e, opaque) ==
    <<e>> \o (IF e.type \in opaque
              THEN <<>>
              ELSE Concat([i \in 1..Len(Children(e)) |-> Nodes(Children(e)[i], opaque)]))

RECURSIVE Shape(_)
\* an expression without the positions of its nodes
Shape(e) ==
    CASE e.type = "IDENTIFIER" -> <<"IDENTIFIER", e.v>>
      [] e.type = "BINARY" -> <<"BINARY", e.v.type, Shape(e.v.left), Shape(e.v.right)>>
      [] e.type = "COMPARISON" ->
            <<"COMPARISON", e.v.operations,
              [i \in 1..Len(e.v.operands) |-> Shape(e.v.operands[i])]>>
      [] e.type = "TUPLE" ->
            <<"TUPLE", [i \in 1..Len(e.v.values) |-> Shape(e.v.values[i])]>>
      [] OTHER -> <<e.type>>

BINARY(type, left, right) == <<"BINARY", type, left, right>>

\* the call of kh_parseExpression has returned
Parsed == expression # <<>> /\ ~expression[1].hung

OperatorsOf(chain) == [i \in 1..((Len(chain) - 1) \div 2) |-> chain[2 * i].value]

OperandsOf(chain) ==
    [i \in 1..((Len(chain) + 1) \div 2) |-> <<"IDENTIFIER", chain[2 * i - 1].value>>]

\* the buffer is a chain of operands and binary operators, all in 'operators'
IsChain(operators) ==
    /\ Len(source) % 2 = 1
    /\ \A i \in 1..Len(source) :
        IF i % 2 = 0
        THEN source[i].type = "OPERATOR" /\ source[i].value \in operators
        ELSE source[i].type = "IDENTIFIER"

(***************************************************************************)
(* C1: every call of the statement parser made while the current token is  *)
(* not the end of the buffer returns and leaves the cursor further than    *)
(* the token it started at.                                                *)
(***************************************************************************)
C1_StatementAdvances ==
    \A i \in 1..Len(calls) : ~calls[i].hung /\ calls[i].end > calls[i].begin

(***************************************************************************)
(* C4: an operator of a higher binary level binds tighter than one of a    *)
(* lower level: a p b q c is BINARY(p, a, BINARY(q, b, c)) when q is of     *)
(* the higher level and BINARY(q, BINARY(p, a, b), c) when p is.            *)
(***************************************************************************)
Precedence(operator) ==
    CASE operator = "OR" -> 1
      [] operator = "XOR" -> 2
      [] operator = "AND" -> 3
      [] operator = "BIT_OR" -> 4
      [] operator = "BIT_XOR" -> 5
      [] operator = "BIT_AND" -> 6
      [] operator \in {"BIT_LSHIFT", "BIT_RSHIFT"} -> 7
      [] operator \in {"ADD", "SUB"} -> 8
      [] operator \in {"MUL", "DIV", "MOD"} -> 9

C4_Expected(p, q, operands) ==
    IF Precedence(p) < Precedence(q)
    THEN BINARY(p, operands[1], BINARY(q, operands[2], operands[3]))
    ELSE BINARY(q, BINARY(p, operands[1], operands[2]), operands[3])

C4_BinaryPrecedence ==
    (/\ Parsed
     /\ ~expression[1].filter_type
     /\ Len(source) = 5
     /\ IsChain(LevelOperators)
     /\ Precedence(source[2].value) # Precedence(source[4].value))
        => /\ errors = <<>>
           /\ expression[1].end = Len(source) + 1
           /\ Shape(expression[1].e)
                = C4_Expected(source[2].value, source[4].value, OperandsOf(source))

C4_Witness ==
    /\ Parsed
    /\ ~expression[1].filter_type
    /\ source = Chain(<<"ADD", "MUL">>)
    /\ Shape(expression[1].e)
        = BINARY("ADD", <<"IDENTIFIER", "a">>,
                 BINARY("MUL", <<"IDENTIFIER", "b">>, <<"IDENTIFIER", "c">>))

(***************************************************************************)
(* C5: a chain of two or more power operators nests to the right:          *)
(* a ** b ** c is BINARY(POW, a, BINARY(POW, b, c)).                        *)
(***************************************************************************)
RECURSIVE C5_RightNested(_)
C5_RightNested(operands) ==
    IF Len(operands) = 1
    THEN operands[1]
    ELSE BINARY("POW", operands[1], C5_RightNested(Tail(operands)))

C5_PowRightAssociative ==
    (/\ Parsed
     /\ ~expression[1].filter_type
     /\ Len(source) >= 5
     /\ IsChain({"POW"}))
        => Shape(expression[1].e) = C5_RightNested(OperandsOf(source))

(***************************************************************************)
(* C6: a chain of comparison operators between operands is one COMPARISON  *)
(* node of the operators and of the operands in their order; and every     *)
(* COMPARISON node of a result has one operation less than it has          *)
(* operands, and one at least.                                             *)
(***************************************************************************)
C6_ComparisonChain ==
    /\ (/\ Parsed
        /\ ~expression[1].filter_type
        /\ Len(source) >= 3
        /\ IsChain(Comparisons))
            => /\ errors = <<>>
               /\ expression[1].end = Len(source) + 1
               /\ Shape(expression[1].e)
                    = <<"COMPARISON", OperatorsOf(source), OperandsOf(source)>>
    /\ Parsed =>
        \A i \in 1..Len(Nodes(expression[1].e, {})) :
            LET node == Nodes(expression[1].e, {})[i]
            IN  node.type = "COMPARISON"
                    => /\ Len(node.v.operations) = Len(node.v.operands) - 1
                       /\ Len(node.v.operations) >= 1

C6_Witness ==
    /\ Parsed
    /\ ~expression[1].filter_type
    /\ source = Chain(<<"LESS", "ELESS">>)
    /\ expression[1].e.type = "COMPARISON"
    /\ expression[1].e.v.operations = <<"LESS", "ELESS">>
    /\ Len(expression[1].e.v.operands) = 3

(***************************************************************************)
(* C7: (x) is the expression x; (x,) and (x, y) are TUPLE nodes of the     *)
(* listed expressions; none records a diagnostic.                          *)
(***************************************************************************)
C7_ParenthesizedList ==
    (Parsed /\ ~expression[1].filter_type) =>
        \A first \in {id_x, id_y}, second \in {id_x, id_y} :
            LET open == Delimiter("PARENTHESIS_OPEN")
                close == Delimiter("PARENTHESIS_CLOSE")
                comma == Delimiter("COMMA")
                e1 == <<"IDENTIFIER", first.value>>
                e2 == <<"IDENTIFIER", second.value>>
            IN  /\ source = <<open, first, close>>
                    => errors = <<>> /\ Shape(expression[1].e) = e1
                /\ source = <<open, first, comma, close>>
                    => errors = <<>> /\ Shape(expression[1].e) = <<"TUPLE", <<e1>>>>
                /\ source = <<open, first, comma, second, close>>
                    => errors = <<>> /\ Shape(expression[1].e) = <<"TUPLE", <<e1, e2>>>>

(***************************************************************************)
(* C8: sparseForLoop classifies by the token behind the comma-separated    *)
(* expressions: 'in' makes a FOR_EACH_LOOP of the expressions read, one at *)
(* least, and of one iteratee; otherwise three expressions make a FOR_LOOP *)
(* of them; otherwise the statement is INVALID with a diagnostic.  The     *)
(* headers looked at are lists of identifiers: x, x, .. followed by a      *)
(* token that is no comma.                                                 *)
(***************************************************************************)
RECURSIVE C8_ListEnd(_)
\* the place behind the list of identifiers whose identifier is at p
C8_ListEnd(p) ==
    IF source[p + 1] = Delimiter("COMMA") /\ source[p + 2].type = "IDENTIFIER"
    THEN C8_ListEnd(p + 2)
    ELSE p + 1

C8_ListHeader ==
    /\ Len(source) >= 4
    /\ source[1] = Keyword("FOR")
    /\ source[2].type = "IDENTIFIER"
    /\ source[C8_ListEnd(2)] # Delimiter("COMMA")

C8_ForLoopKind ==
    (/\ Len(calls) >= 1
     /\ ~calls[1].hung
     /\ C8_ListHeader)
        => LET follows == source[C8_ListEnd(2)]
               size == (C8_ListEnd(2) - 1) \div 2
               read == [i \in 1..size |-> <<"IDENTIFIER", source[2 * i].value>>]
               for == asts[1]
           IN  IF follows = Keyword("IN")
               THEN /\ for.type = "FOR_EACH_LOOP"
                    /\ size >= 1
                    /\ [i \in 1..Len(for.v.iterators) |-> Shape(for.v.iterators[i])] = read
                    /\ for.v.iteratee.type \in
                        {"IDENTIFIER", "INVALID", "DICT", "TUPLE", "BINARY", "COMPARISON"}
               ELSE IF size = 3
               THEN /\ for.type = "FOR_LOOP"
                    /\ <<Shape(for.v.initial_expression), Shape(for.v.loop_condition),
                         Shape(for.v.update_expression)>> = read
               ELSE /\ for.type = "INVALID"
                    /\ errors # <<>>

C8_Witness ==
    /\ Len(calls) >= 1
    /\ C8_ListHeader
    /\ source[C8_ListEnd(2)] = Keyword("IN")
    /\ C8_ListEnd(2) = 5
    /\ asts[1].type = "FOR_EACH_LOOP"
    /\ Len(asts[1].v.iterators) = 2

(***************************************************************************)
(* C9: in type-filter mode a string, char, buffer, byte, float, double or  *)
(* imaginary literal, an array literal, a dict literal and a lambda each   *)
(* record a diagnostic; an integer or unsigned integer literal and an      *)
(* identifier record none.  No assignment operator, ternary 'if' or        *)
(* logical 'not' is built into the result.                                 *)
(***************************************************************************)
C9_Rejected ==
    {<<Literal(type)>> :
        type \in {"CHAR", "STRING", "BUFFER", "BYTE", "FLOAT", "DOUBLE", "IFLOAT", "IDOUBLE"}}
        \cup {EmptyArray, EmptyBlock, EmptyLambda}

C9_Accepted == {<<Literal("INTEGER")>>, <<Literal("UINTEGER")>>, <<id_x>>}

C9_Atoms ==
    /\ source \in C9_Rejected => errors # <<>>
    /\ source \in C9_Accepted => errors = <<>>

C9_ValueOperator(node) ==
    \/ node.type = "TERNARY"
    \/ node.type = "UNARY" /\ node.v.type = "NOT"
    \/ node.type = "BINARY"
        /\ node.v.type \in {"IADD", "ISUB", "IMUL", "IDIV", "IMOD", "IPOW", "IDOT",
                            "ASSIGN", "IBIT_AND", "IBIT_OR", "IBIT_XOR", "IBIT_LSHIFT",
                            "IBIT_RSHIFT"}

C9_TypeFilter ==
    (Parsed /\ expression[1].filter_type)
        => /\ C9_Atoms
           /\ \A i \in 1..Len(Nodes(expression[1].e, {})) :
                ~C9_ValueOperator(Nodes(expression[1].e, {})[i])

(***************************************************************************)
(* C9, as the code has it: the levels of the type-filter mode build no     *)
(* assignment operator, ternary 'if' or logical 'not'; such a node is in   *)
(* the result only inside a dict literal, a lambda or a variable           *)
(* declaration, whose contents are parsed as values and which is itself    *)
(* recorded with a diagnostic.                                             *)
(***************************************************************************)
C9_ValueConstructs == {"DICT", "LAMBDA", "VARIABLE_DECLARATION"}

C9_TypeFilterOutsideValues ==
    (Parsed /\ expression[1].filter_type)
        => /\ C9_Atoms
           /\ \A i \in 1..Len(Nodes(expression[1].e, C9_ValueConstructs)) :
                LET node == Nodes(expression[1].e, C9_ValueConstructs)[i]
                IN  /\ ~C9_ValueOperator(node)
                    /\ node.type \in C9_ValueConstructs => errors # <<>>

C9_Witness ==
    /\ Parsed
    /\ expression[1].filter_type
    /\ source = <<id_x, Operator("ASSIGN"), id_x>>
    /\ expression[1].e.type = "IDENTIFIER"
    /\ expression[1].end = 2
    /\ errors = <<>>


(***************************************************************************)
(* Integer literals around 2^64: a base prefix, a long head of digits and  *)
(* a short tail of digits.                                                 *)
(***************************************************************************)
MaxDigits == 2     \* digits after the head of a long integer literal

Repeat(digit, n) == [i \in 1..n |-> digit]

\* the code point of a digit value
CodeOf(digit) == IF digit < 10 THEN U_0 + digit ELSE U_A + (digit - 10)

CodesOf(digits) == [i \in 1..Len(digits) |-> CodeOf(digits[i])]

IntBases == {2, 8, 10, 16}

IntPrefix(base) ==
    CASE base = 2 -> <<U_0, U_b>>
      [] base = 8 -> <<U_0, U_o>>
      [] base = 10 -> <<>>
      [] base = 16 -> <<U_0, U_x>>

\* heads of digits: short of 2^64 by the digits of a tail
IntHeads(base) ==
    CASE base = 2 -> {<<1>>, Repeat(1, 63), <<1>> \o Repeat(0, 62)}
      [] base = 8 -> {<<1>>, <<1>> \o Repeat(7, 20), <<1>> \o Repeat(0, 20)}
      [] base = 10 ->
            {<<1>>, <<1, 8, 4, 4, 6, 7, 4, 4, 0, 7, 3, 7, 0, 9, 5, 5, 1, 6, 1>>,
             <<3>> \o Repeat(0, 18)}
      [] base = 16 -> {<<1>>, Repeat(15, 15), <<1>> \o Repeat(15, 15)}

IntTailDigits(base) == {0, 1, IF base = 10 THEN 5 ELSE base - 1, base - 1}

IntLiterals(base) ==
    {head \o tail :
        head \in IntHeads(base),
        tail \in UNION {[1..k -> IntTailDigits(base)] : k \in 0..MaxDigits}}

IntBuffers ==
    UNION {{IntPrefix(base) \o CodesOf(digits) \o <<U_NUL>> : digits \in IntLiterals(base)} :
            base \in IntBases}

IntInit == LexStart(IntBuffers)

IntNext == kh_lex

IntSpec == IntInit /\ [][IntNext]_vars

(***************************************************************************)
(* C11: the digits of an integer literal in base 2, 8, 10 or 16 whose      *)
(* value is at most 2^64 - 1 give exactly that value and no overflow; the  *)
(* digits of a greater value give had_overflowed, and kh_lexNumber         *)
(* returns the token of a float and no integer token.                      *)
(***************************************************************************)
\* the digits of 2^64 - 1
C11_MaxDigits(base) ==
    CASE base = 2 -> Repeat(1, 64)
      [] base = 8 -> <<1>> \o Repeat(7, 21)
      [] base = 10 -> <<1, 8, 4, 4, 6, 7, 4, 4, 0, 7, 3, 7, 0, 9, 5, 5, 1, 6, 1, 5>>
      [] base = 16 -> Repeat(15, 16)

RECURSIVE C11_Stripped(_)
\* digits without their leading zeros
C11_Stripped(digits) ==
    IF Len(digits) > 0 /\ Head(digits) = 0 THEN C11_Stripped(Tail(digits)) ELSE digits

RECURSIVE C11_AtMost(_, _)
\* digits of one length, compared from the most significant
C11_AtMost(digits, most) ==
    \/ Len(digits) = 0
    \/ Head(digits) < Head(most)
    \/ Head(digits) = Head(most) /\ C11_AtMost(Tail(digits), Tail(most))

C11_Fits(digits, base) ==
    \/ Len(C11_Stripped(digits)) < Len(C11_MaxDigits(base))
    \/ /\ Len(C11_Stripped(digits)) = Len(C11_MaxDigits(base))
       /\ C11_AtMost(C11_Stripped(digits), C11_MaxDigits(base))

\* quotient and remainder of a uint64_t by a base, limb by limb from the top
C11_DivMod(n, base) ==
    LET t4 == n[4]
        t3 == (t4 % base) * Limb + n[3]
        t2 == (t3 % base) * Limb + n[2]
        t1 == (t2 % base) * Limb + n[1]
    IN  [quotient |-> <<t1 \div base, t2 \div base, t3 \div base, t4 \div base>>,
         remainder |-> t1 % base]

RECURSIVE C11_DigitsOf(_, _)
\* the digits of a uint64_t, most significant first
C11_DigitsOf(n, base) ==
    IF n = Zero64
    THEN <<>>
    ELSE Append(C11_DigitsOf(C11_DivMod(n, base).quotient, base),
                C11_DivMod(n, base).remainder)

\* the base and the digits of the buffer when it is one integer literal
C11_Base ==
    IF Len(text) > 2 /\ text[1] = U_0 /\ text[2] = U_b THEN 2
    ELSE IF Len(text) > 2 /\ text[1] = U_0 /\ text[2] = U_o THEN 8
    ELSE IF Len(text) > 2 /\ text[1] = U_0 /\ text[2] = U_x THEN 16
    ELSE 10

C11_Origin == IF C11_Base = 10 THEN 1 ELSE 3

C11_Digits == [i \in 1..(Len(text) - C11_Origin) |-> digitOf(text[C11_Origin + i - 1])]

C11_IsLiteral ==
    /\ Len(text) > C11_Origin
    /\ \A i \in 1..Len(C11_Digits) : C11_Digits[i] < C11_Base

C11_IntExact ==
    (C11_IsLiteral /\ Len(tokens) >= 1)
        => LET int == kh_lexInt(C11_Origin, C11_Base, -1)
           IN  IF C11_Fits(C11_Digits, C11_Base)
               THEN /\ ~int.had_overflowed
                    /\ C11_DigitsOf(int.result, C11_Base) = C11_Stripped(C11_Digits)
                    /\ tokens[1].token.type = "INT"
                    /\ C11_DigitsOf(tokens[1].token.value, C11_Base) = C11_Stripped(C11_Digits)
               ELSE /\ int.had_overflowed
                    /\ tokens[1].token.type = "DOUBLE"

(***************************************************************************)
(* Statements of kh_parse: an expression statement and what follows it.    *)
(***************************************************************************)
MaxRest == 2       \* tokens behind the first statement of a buffer

EndTokens ==
    {Newline, Delimiter("SEMICOLON"), Delimiter("CURLY_BRACKET_CLOSE"), id_y,
     Keyword("AS"), Keyword("IN"), Literal("INTEGER"), Delimiter("PARENTHESIS_CLOSE"),
     Delimiter("COMMA")}

RestSources == Sources({id_y, Newline}, MaxRest)

EndSources ==
    {<<id_x>>, <<id_x, Comment>>}
        \cup {<<id_x>> \o gap \o <<end>> \o rest :
                gap \in {<<>>, <<Comment>>}, end \in EndTokens, rest \in RestSources}

\* break, continue or return, a newline and a following line
BreakSources ==
    {<<Keyword(keyword), Newline>> \o rest :
        keyword \in {"BREAK", "CONTINUE", "RETURN"},
        rest \in Sources({id_y, Newline, Delimiter("CURLY_BRACKET_CLOSE")}, MaxRest)}

\* the definitions that take specifiers, each with a name and nothing in it
Definition(keyword) ==
    CASE keyword = "DEF" ->
            <<Keyword("DEF"), Identifier("f"), Delimiter("PARENTHESIS_OPEN"),
              Delimiter("PARENTHESIS_CLOSE")>> \o EmptyBlock
      [] keyword = "CLASS" -> <<Keyword("CLASS"), Identifier("C")>> \o EmptyBlock
      [] keyword = "STRUCT" -> <<Keyword("STRUCT"), Identifier("S")>> \o EmptyBlock
      [] keyword = "ALIAS" -> <<Keyword("ALIAS"), Identifier("A"), id_x, Newline>>

Specifiers(keyword) ==
    IF keyword = "DEF"
    THEN {<<Keyword("STATIC")>>, <<Keyword("INCASE")>>, <<Keyword("INCASE"), Keyword("STATIC")>>,
          <<Keyword("STATIC"), Keyword("INCASE")>>}
    ELSE {<<Keyword("INCASE")>>}

SpecifierSources ==
    UNION {{specifiers \o Definition(keyword) \o rest :
                specifiers \in Specifiers(keyword), rest \in RestSources} :
            keyword \in {"DEF", "CLASS", "STRUCT", "ALIAS"}}

MaxPath == 3       \* names of the path of an import or include

\* n1.n2. .. .nk
RECURSIVE Dotted(_)
Dotted(names) ==
    IF Len(names) = 1
    THEN <<Identifier(names[1])>>
    ELSE <<Identifier(names[1]), Delimiter("DOT")>> \o Dotted(Tail(names))

PathSources == {Dotted(names) : names \in UNION {[1..k -> {"a", "b"}] : k \in 1..MaxPath}}

ImportSources ==
    {<<Keyword(keyword)>> \o dot \o path \o alias \o end :
        keyword \in {"IMPORT", "INCLUDE"},
        dot \in {<<>>, <<Delimiter("DOT")>>},
        path \in PathSources,
        alias \in {<<>>, <<Keyword("AS"), Identifier("c")>>},
        end \in {<<>>, <<Newline>>, <<Delimiter("SEMICOLON")>>, <<Newline, id_y>>,
                  <<Delimiter("SEMICOLON"), id_y>>}}

StatementSources == EndSources \cup BreakSources \cup SpecifierSources \cup ImportSources

StatementInit == ParserStart(StatementSources, "parse")

StatementNext == kh_parse_append \/ kh_parse_return

StatementSpec == StatementInit /\ [][StatementNext]_vars

(***************************************************************************)
(* C12: behind an expression statement, comments skipped and newlines not, *)
(* a newline, a semicolon or the end of the buffer is consumed without a   *)
(* diagnostic; a closing curly bracket is left where it is without a       *)
(* diagnostic; any other token is skipped, it alone, with one diagnostic.  *)
(***************************************************************************)
RECURSIVE C12_BehindComments(_)
C12_BehindComments(p) ==
    IF p \in DOMAIN source /\ source[p] = Comment THEN C12_BehindComments(p + 1) ELSE p

\* the buffer starts with the expression statement x and the token at 'p' follows it
C12_Applies(p) ==
    /\ Len(calls) = 1
    /\ Len(source) >= 1
    /\ source[1] = id_x
    /\ p = C12_BehindComments(2)
    /\ p \in DOMAIN source => source[p] \in EndTokens

C12_StatementEnd ==
    \A p \in 2..(Len(source) + 1) :
        C12_Applies(p)
            => /\ ~calls[1].hung
               /\ asts[1].type = "EXPRESSION"
               /\ Shape(asts[1].v) = <<"IDENTIFIER", "x">>
               /\ IF p \notin DOMAIN source
                  THEN calls[1].end = p /\ errors = <<>>
                  ELSE IF source[p] \in {Newline, Delimiter("SEMICOLON")}
                  THEN calls[1].end = p + 1 /\ errors = <<>>
                  ELSE IF source[p] = Delimiter("CURLY_BRACKET_CLOSE")
                  THEN calls[1].end = p /\ errors = <<>>
                  ELSE calls[1].end = p + 1 /\ Len(errors) = 1

C12_Witness ==
    /\ Len(source) >= 3
    /\ C12_Applies(3)
    /\ source[2] = Comment
    /\ source[3] = Keyword("AS")
    /\ calls[1].end = 4
    /\ Len(errors) = 1

(***************************************************************************)
(* C13: a newline directly behind break, continue or a return without      *)
(* values ends the statement: no diagnostic, no value of the return, and   *)
(* the cursor no further than the first token of the following line.       *)
(***************************************************************************)
RECURSIVE C13_NextLine(_)
C13_NextLine(p) ==
    IF p \in DOMAIN source /\ source[p] = Newline THEN C13_NextLine(p + 1) ELSE p

C13_NewlineEnds ==
    (/\ Len(calls) = 1
     /\ Len(source) >= 2
     /\ source[1] \in {Keyword("BREAK"), Keyword("CONTINUE"), Keyword("RETURN")}
     /\ source[2] = Newline)
        => /\ ~calls[1].hung
           /\ errors = <<>>
           /\ asts[1].type = source[1].value
           /\ source[1] = Keyword("RETURN") => asts[1].v.values = <<>>
           /\ calls[1].end <= C13_NextLine(3)

(***************************************************************************)
(* C14: a definition behind specifiers is parsed as that definition with   *)
(* its flags set and without a diagnostic: static def f() { } is a         *)
(* FUNCTION with is_static, incase class C { } a CLASS with is_incase,     *)
(* and so for struct and alias; the keyword behind the specifiers is       *)
(* taken as the keyword of the definition.                                 *)
(***************************************************************************)
RECURSIVE C14_BehindSpecifiers(_)
C14_BehindSpecifiers(p) ==
    IF p \in DOMAIN source /\ source[p] \in {Keyword("INCASE"), Keyword("STATIC")}
    THEN C14_BehindSpecifiers(p + 1)
    ELSE p

\* the buffer starts with specifiers and the definition of 'keyword' at p
C14_Applies(p, keyword) ==
    /\ Len(calls) = 1
    /\ p > 1
    /\ p = C14_BehindSpecifiers(1)
    /\ Len(source) >= p - 1 + Len(Definition(keyword))
    /\ SubSeq(source, p, p - 1 + Len(Definition(keyword))) = Definition(keyword)
    /\ keyword # "DEF" => \A i \in 1..(p - 1) : source[i] # Keyword("STATIC")

C14_Type(keyword) == IF keyword = "DEF" THEN "FUNCTION" ELSE keyword

C14_SpecifiedDefinition ==
    \A p \in 2..3, keyword \in {"DEF", "CLASS", "STRUCT", "ALIAS"} :
        C14_Applies(p, keyword)
            => /\ ~calls[1].hung
               /\ errors = <<>>
               /\ calls[1].end = p + Len(Definition(keyword))
               /\ asts[1].type = C14_Type(keyword)
               /\ asts[1].v.is_incase = (\E i \in 1..(p - 1) : source[i] = Keyword("INCASE"))
               /\ keyword = "DEF" =>
                    /\ asts[1].v.is_static = (\E i \in 1..(p - 1) : source[i] = Keyword("STATIC"))
                    /\ Shape(asts[1].v.name_point) = <<"IDENTIFIER", "f">>
               /\ keyword # "DEF" => asts[1].v.name = source[p + 1].value

(***************************************************************************)
(* C15: a well-formed import [.] n1.n2. .. .nk [as alias] ended by a       *)
(* newline, a semicolon or the end of the buffer gives the path            *)
(* n1, .., nk in its order, relative exactly when a dot precedes n1, the   *)
(* alias exactly when 'as alias' is there, and no diagnostic; an include   *)
(* gives the same without the alias.                                       *)
(***************************************************************************)
C15_At(p) == IF p \in DOMAIN source THEN source[p] ELSE EndOfFile

C15_Relative == C15_At(2) = Delimiter("DOT")

C15_PathStart == IF C15_Relative THEN 3 ELSE 2

RECURSIVE C15_PathEnd(_)
\* the place behind the path whose name is at p
C15_PathEnd(p) ==
    IF C15_At(p + 1) = Delimiter("DOT") /\ C15_At(p + 2).type = "IDENTIFIER"
    THEN C15_PathEnd(p + 2)
    ELSE p + 1

C15_Path ==
    [i \in 1..((C15_PathEnd(C15_PathStart) - C15_PathStart + 1) \div 2) |->
        source[C15_PathStart + 2 * (i - 1)].value]

C15_Aliased ==
    /\ source[1] = Keyword("IMPORT")
    /\ C15_At(C15_PathEnd(C15_PathStart)) = Keyword("AS")
    /\ C15_At(C15_PathEnd(C15_PathStart) + 1).type = "IDENTIFIER"

C15_End == IF C15_Aliased THEN C15_PathEnd(C15_PathStart) + 2 ELSE C15_PathEnd(C15_PathStart)

C15_WellFormed ==
    /\ Len(calls) = 1
    /\ source[1] \in {Keyword("IMPORT"), Keyword("INCLUDE")}
    /\ C15_At(C15_PathStart).type = "IDENTIFIER"
    /\ C15_At(C15_End) \in {Newline, Delimiter("SEMICOLON"), EndOfFile}

C15_ImportPath ==
    C15_WellFormed
        => /\ ~calls[1].hung
           /\ errors = <<>>
           /\ asts[1].type = source[1].value
           /\ asts[1].v.path = C15_Path
           /\ asts[1].v.relative = C15_Relative
           /\ source[1] = Keyword("IMPORT") =>
                asts[1].v.optional_alias
                    = IF C15_Aliased THEN <<source[C15_End - 1].value>> ELSE <<>>
           /\ calls[1].end = IF C15_End \in DOMAIN source THEN C15_End + 1 ELSE C15_End

C15_Witness ==
    /\ C15_WellFormed
    /\ C15_Relative
    /\ C15_Aliased
    /\ asts[1].type = "IMPORT"
    /\ asts[1].v.path = <<"a", "b", "a">>
    /\ asts[1].v.optional_alias = <<"c">>

(***************************************************************************)
(* Words: the keywords and word operators of the language, and a few       *)
(* other words.                                                            *)
(***************************************************************************)
\* the fixed keyword set of the language, each word with its code
FixedKeywords ==
    {<<<<U_i, U_m, U_p, U_o, U_r, U_t>>, "IMPORT">>,
     <<<<U_i, U_n, U_c, U_l, U_u, U_d, U_e>>, "INCLUDE">>,
     <<<<U_a, U_s>>, "AS">>,
     <<<<U_t, U_r, U_y>>, "TRY">>,
     <<<<U_d, U_e, U_f>>, "DEF">>,
     <<<<U_c, U_l, U_a, U_s, U_s>>, "CLASS">>,
     <<<<U_s, U_t, U_r, U_u, U_c, U_t>>, "STRUCT">>,
     <<<<U_e, U_n, U_u, U_m>>, "ENUM">>,
     <<<<U_a, U_l, U_i, U_a, U_s>>, "ALIAS">>,
     <<<<U_r, U_e, U_f>>, "REF">>,
     <<<<U_w, U_i, U_l, U_d>>, "WILD">>,
     <<<<U_p, U_u, U_b, U_l, U_i, U_c>>, "PUBLIC">>,
     <<<<U_p, U_r, U_i, U_v, U_a, U_t, U_e>>, "PRIVATE">>,
     <<<<U_s, U_t, U_a, U_t, U_i, U_c>>, "STATIC">>,
     <<<<U_i, U_n, U_c, U_a, U_s, U_e>>, "INCASE">>,
     <<<<U_i, U_f>>, "IF">>,
     <<<<U_e, U_l, U_i, U_f>>, "ELIF">>,
     <<<<U_e, U_l, U_s, U_e>>, "ELSE">>,
     <<<<U_f, U_o, U_r>>, "FOR">>,
     <<<<U_w, U_h, U_i, U_l, U_e>>, "WHILE">>,
     <<<<U_d, U_o>>, "DO">>,
     <<<<U_b, U_r, U_e, U_a, U_k>>, "BREAK">>,
     <<<<U_c, U_o, U_n, U_t, U_i, U_n, U_u, U_e>>, "CONTINUE">>,
     <<<<U_r, U_e, U_t, U_u, U_r, U_n>>, "RETURN">>,
     <<<<U_i, U_n>>, "IN">>}

FixedWordOperators ==
    {<<<<U_n, U_o, U_t>>, "NOT">>, <<<<U_a, U_n, U_d>>, "AND">>,
     <<<<U_o, U_r>>, "OR">>, <<<<U_x, U_o, U_r>>, "XOR">>}

OtherWords ==
    {<<U_x>>, <<U_i, U_f, U_s>>, <<U_I, U_f>>, <<U_n, U_o, U_t, U_2>>, <<U_d, U_o, U_o>>,
     <<U_o>>, <<U_a, U_n>>, <<U_e, U_l, U_s>>}

WordBuffers ==
    {pair[1] \o <<U_NUL>> : pair \in FixedKeywords \cup FixedWordOperators}
        \cup {word \o <<U_NUL>> : word \in OtherWords}

WordInit == LexStart(WordBuffers)

WordNext == kh_lex

WordSpec == WordInit /\ [][WordNext]_vars

(***************************************************************************)
(* C16: every word of the fixed keyword set lexes to a KEYWORD token of    *)
(* its own code, each of not, and, or, xor to an OPERATOR token, and       *)
(* every other word to an IDENTIFIER.                                      *)
(***************************************************************************)
C16_Word == SubSeq(text, 1, Len(text) - 1)

C16_Expected ==
    IF \E pair \in FixedKeywords : pair[1] = C16_Word
    THEN Token("KEYWORD", (CHOOSE pair \in FixedKeywords : pair[1] = C16_Word)[2])
    ELSE IF \E pair \in FixedWordOperators : pair[1] = C16_Word
    THEN Token("OPERATOR", (CHOOSE pair \in FixedWordOperators : pair[1] = C16_Word)[2])
    ELSE Token("IDENTIFIER", C16_Word)

C16_WordTokens ==
    (/\ Len(tokens) >= 1
     /\ iswalpha(text[1])
     /\ \A i \in 1..(Len(text) - 1) : iswalnum(text[i]))
        => /\ tokens[1].token = C16_Expected
           /\ tokens[1].end = Len(text)
           /\ lexErrors = <<>>

(***************************************************************************)
(* Symbols: two punctuators of the language, a space between them.         *)
(***************************************************************************)
\* the operators and delimiters of more than one character: spelling, kind, code
LongPunctuators ==
    {<<<<U_STAR, U_STAR>>, "OPERATOR", "POWER">>,
     <<<<U_PLUS, U_EQUAL>>, "OPERATOR", "IADD">>,
     <<<<U_MINUS, U_EQUAL>>, "OPERATOR", "ISUB">>,
     <<<<U_STAR, U_EQUAL>>, "OPERATOR", "IMUL">>,
     <<<<U_SLASH, U_EQUAL>>, "OPERATOR", "IDIV">>,
     <<<<U_PERCENT, U_EQUAL>>, "OPERATOR", "IMODULO">>,
     <<<<U_STAR, U_STAR, U_EQUAL>>, "OPERATOR", "IPOWER">>,
     <<<<U_DOT, U_EQUAL>>, "OPERATOR", "IDOT">>,
     <<<<U_EQUAL, U_EQUAL>>, "OPERATOR", "EQUALS">>,
     <<<<U_EXCLAMATION, U_EQUAL>>, "OPERATOR", "NOT_EQUAL">>,
     <<<<U_LESS, U_EQUAL>>, "OPERATOR", "ELESS">>,
     <<<<U_MORE, U_EQUAL>>, "OPERATOR", "EMORE">>,
     <<<<U_LESS, U_LESS>>, "OPERATOR", "BIT_LSHIFT">>,
     <<<<U_MORE, U_MORE>>, "OPERATOR", "BIT_RSHIFT">>,
     <<<<U_LESS, U_LESS, U_EQUAL>>, "OPERATOR", "IBIT_LSHIFT">>,
     <<<<U_MORE, U_MORE, U_EQUAL>>, "OPERATOR", "IBIT_RSHIFT">>,
     <<<<U_AMPERSAND, U_EQUAL>>, "OPERATOR", "IBIT_AND">>,
     <<<<U_PIPE, U_EQUAL>>, "OPERATOR", "IBIT_OR">>,
     <<<<U_TILDE, U_EQUAL>>, "OPERATOR", "IBIT_XOR">>,
     <<<<U_PLUS, U_PLUS>>, "OPERATOR", "INCREMENT">>,
     <<<<U_MINUS, U_MINUS>>, "OPERATOR", "DECREMENT">>,
     <<<<U_MINUS, U_MORE>>, "DELIMITER", "ARROW">>,
     <<<<U_DOT, U_DOT, U_DOT>>, "DELIMITER", "ELLIPSIS">>}

\* the operators and delimiters of one character
ShortPunctuators ==
    {U_PLUS, U_MINUS, U_STAR, U_SLASH, U_PERCENT, U_EQUAL, U_LESS, U_MORE, U_AMPERSAND,
     U_PIPE, U_TILDE, U_AT, U_COMMA, U_COLON, U_SEMICOLON, U_LPAREN, U_RPAREN, U_LBRACE,
     U_RBRACE, U_LBRACKET, U_RBRACKET, U_DOT, U_EXCLAMATION}

Spellings == {p[1] : p \in LongPunctuators} \cup {<<chr>> : chr \in ShortPunctuators}

SymbolBuffers == {p \o <<U_SP>> \o q \o <<U_NUL>> : p, q \in Spellings}

SymbolInit == LexStart(SymbolBuffers)

SymbolNext == kh_lex

SymbolSpec == SymbolInit /\ [][SymbolNext]_vars

(***************************************************************************)
(* C17: lexing the text of an operator or delimiter of more than one       *)
(* character gives exactly one token, of that punctuator, and consumes     *)
(* all of its characters.                                                  *)
(***************************************************************************)
\* the position of the space between the two spellings
C17_Space == CHOOSE i \in 1..Len(text) : text[i] = U_SP

C17_First == SubSeq(text, 1, C17_Space - 1)

C17_LongestMatch ==
    (Len(tokens) >= 1 /\ \E p \in LongPunctuators : p[1] = C17_First)
        => LET p == CHOOSE q \in LongPunctuators : q[1] = C17_First
           IN  /\ tokens[1].token = Token(p[2], p[3])
               /\ tokens[1].at = 1
               /\ tokens[1].end = C17_Space
               /\ \A i \in DOMAIN lexErrors : lexErrors[i].ptr >= C17_Space

(***************************************************************************)
(* C18: two different spellings that are each lexed as one operator or     *)
(* delimiter token give two different tokens.                              *)
(***************************************************************************)
C18_Second == SubSeq(text, C17_Space + 1, Len(text) - 1)

\* each of the two spellings gave one token that consumed all of it
C18_OneTokenEach ==
    /\ Len(tokens) >= 2
    /\ tokens[1].at = 1 /\ tokens[1].end = C17_Space
    /\ tokens[2].at = C17_Space + 1 /\ tokens[2].end = Len(text)
    /\ \A i \in 1..2 : tokens[i].token.type \in {"OPERATOR", "DELIMITER"}

C18_DistinctTokens ==
    (C18_OneTokenEach /\ C17_First # C18_Second)
        => tokens[1].token # tokens[2].token

(***************************************************************************)
(* Blanks: buffers of spaces, tabs, line breaks and a word.                *)
(***************************************************************************)
MaxBlank == 3      \* code points in a buffer of blanks, terminator excluded

BlankAlphabet == {U_SP, U_TAB, U_NL, U_x}

BlankInit == LexStart(Buffers(BlankAlphabet, MaxBlank))

BlankNext == kh_lex

BlankSpec == BlankInit /\ [][BlankNext]_vars

(***************************************************************************)
(* C19: when a line break is the next code point behind whitespace other   *)
(* than a line break, kh_lex returns a NEWLINE token that ends behind      *)
(* that line break.                                                        *)
(***************************************************************************)
RECURSIVE C19_BehindBlanks(_)
\* the first position from p on that holds no whitespace but a line break
C19_BehindBlanks(p) ==
    IF text[p] \in {U_SP, U_TAB, U_VT, U_FF, U_CR} THEN C19_BehindBlanks(p + 1) ELSE p

C19_NewlineToken ==
    \A i \in DOMAIN tokens :
        text[C19_BehindBlanks(tokens[i].start)] = U_NL
            => /\ tokens[i].token.type = "NEWLINE"
               /\ tokens[i].end = C19_BehindBlanks(tokens[i].start) + 1

(***************************************************************************)
(* C20: when the cursor behind whitespace is on the terminating zero,      *)
(* every call of kh_lex returns an EOF token, records no diagnostic and    *)
(* leaves the cursor on the terminator.                                    *)
(***************************************************************************)
C20_EndOfFile ==
    \A i \in DOMAIN tokens :
        text[C19_BehindBlanks(tokens[i].start)] = U_NUL
            => /\ tokens[i].token.type = "EOF"
               /\ tokens[i].end = Len(text)
               /\ \A k \in DOMAIN lexErrors : lexErrors[k].ptr # Len(text)

(***************************************************************************)
(* Nodes: statements of atoms, arrays, templatizations and stray keywords. *)
(***************************************************************************)
MaxNode == 3       \* tokens of a buffer of atoms and brackets

NodeAlphabet ==
    {id_x, Keyword("AS"), Newline, Delimiter("EXCLAMATION"),
     Delimiter("SQUARE_BRACKET_OPEN"), Delimiter("SQUARE_BRACKET_CLOSE")}

NodeSources == Sources(NodeAlphabet, MaxNode)

MaxDeclaration == 4    \* tokens of a buffer of specifiers, names, colons and assign ops

DeclarationAlphabet ==
    {Keyword("STATIC"), Keyword("WILD"), Keyword("REF"), id_x, Delimiter("COLON"),
     Operator("ASSIGN")}

DeclarationSources == Sources(DeclarationAlphabet, MaxDeclaration)

MaxDict == 4       \* tokens behind the opening curly bracket of a dict

DictAlphabet ==
    {id_x, Delimiter("COLON"), Delimiter("COMMA"), Delimiter("CURLY_BRACKET_CLOSE")}

DictSources ==
    {<<Delimiter("CURLY_BRACKET_OPEN")>> \o dict : dict \in Sources(DictAlphabet, MaxDict)}

\* a!b and a!(b), each followed by a newline
TemplatizeSources ==
    {<<id_a, Delimiter("EXCLAMATION"), id_b, Newline>>,
     <<id_a, Delimiter("EXCLAMATION"), Delimiter("PARENTHESIS_OPEN"), id_b,
       Delimiter("PARENTHESIS_CLOSE"), Newline>>}

AstSources == NodeSources \cup DeclarationSources \cup DictSources \cup TemplatizeSources

AstInit == ParserStart(AstSources, "parse")

AstNext == kh_parse_append \/ kh_parse_return

AstSpec == AstInit /\ [][AstNext]_vars

(***************************************************************************)
(* C21: every statement node and every expression node of the tree that    *)
(* kh_parse returns has its begin and its end inside the buffer, the       *)
(* begin not behind the end.                                               *)
(***************************************************************************)
RECURSIVE C21_Statements(_)
\* a statement and the statements of its blocks
C21_Statements(ast) ==
    LET v == ast.v
        block(content) == Concat([i \in 1..Len(content) |-> C21_Statements(content[i])])
    IN  <<ast>> \o
        (CASE ast.type \in {"FUNCTION", "CLASS", "STRUCT", "WHILE_LOOP", "DO_WHILE_LOOP",
                            "FOR_LOOP", "FOR_EACH_LOOP"} -> block(v.content)
           [] ast.type = "IF_BRANCH" -> block(Concat(v.branch_contents) \o v.else_content)
           [] OTHER -> <<>>)

C21_Expressions(ast) ==
    Concat([i \in 1..Len(StatementExpressions(ast)) |->
                Nodes(StatementExpressions(ast)[i], {})])

C21_InBuffer(node) ==
    /\ node.begin \in 1..(Len(source) + 1)
    /\ node.end \in 1..(Len(source) + 1)
    /\ node.begin <= node.end

C21_Positions ==
    \A i \in DOMAIN asts :
        /\ \A k \in DOMAIN C21_Statements(asts[i]) : C21_InBuffer(C21_Statements(asts[i])[k])
        /\ \A k \in DOMAIN C21_Expressions(asts[i]) : C21_InBuffer(C21_Expressions(asts[i])[k])

(***************************************************************************)
(* C22: every VARIABLE_DECLARATION node has a type or an initializer.      *)
(***************************************************************************)
C22_Declarations ==
    {d \in UNION {{C21_Expressions(asts[i])[k] : k \in DOMAIN C21_Expressions(asts[i])} :
                     i \in DOMAIN asts} : d.type = "VARIABLE_DECLARATION"}

C22_TypeOrInitializer ==
    \A d \in C22_Declarations :
        d.v.optional_type # None \/ d.v.optional_initializer # None

\* x and a colon at the end of the input, and wild alone: no name, no colon
C22_Witness ==
    /\ ppc = "done"
    /\ source \in {<<id_x, Delimiter("COLON")>>, <<Keyword("WILD")>>}
    /\ \E d \in C22_Declarations :
            /\ Len(d.v.optional_type) = 1
            /\ d.v.optional_type[1].type = "INVALID"
            /\ d.v.optional_initializer = None

(***************************************************************************)
(* C23: every DICT node has as many values as keys.                        *)
(***************************************************************************)
C23_Dicts ==
    {d \in UNION {{C21_Expressions(asts[i])[k] : k \in DOMAIN C21_Expressions(asts[i])} :
                     i \in DOMAIN asts} : d.type = "DICT"}

C23_KeysAndValues == \A d \in C23_Dicts : Len(d.v.keys) = Len(d.v.values)

\* a key, no colon, and the input ends inside the braces
C23_Witness ==
    /\ source = <<Delimiter("CURLY_BRACKET_OPEN"), id_x, Delimiter("COMMA"), id_x>>
    /\ \E d \in C23_Dicts : Len(d.v.keys) >= 1 /\ d.v.keys[1].type = "IDENTIFIER"
    /\ \E i \in DOMAIN errors :
            errors[i].message = "expecting a colon after the key for its value pair"

(***************************************************************************)
(* Bytes: a byte character or a byte buffer of escapes, letters, quotes    *)
(* and a code point above 255.                                             *)
(***************************************************************************)
MaxByte == 3       \* code points behind the opening quote of a byte literal

ByteAlphabet == {U_BACKSLASH, U_u, U_U, U_x, U_SNOWMAN, U_SQUOTE, U_DQUOTE}

ByteBuffers ==
    {<<U_b, quote>> \o body \o <<U_NUL>> :
        quote \in {U_SQUOTE, U_DQUOTE},
        body \in UNION {[1..k -> ByteAlphabet] : k \in 0..MaxByte}}

ByteInit == LexStart(ByteBuffers)

ByteNext == kh_lex \/ kh_lexString

ByteSpec == ByteInit /\ [][ByteNext]_vars

(***************************************************************************)
(* C24: in a byte character and in a byte buffer a \u escape, a \U escape  *)
(* and a raw code point above 255 each record a diagnostic, and every      *)
(* element of the byte or of the byte sequence returned is in 0..255.      *)
(***************************************************************************)
\* the step records a diagnostic at p
C24_Recorded(p) ==
    \E k \in DOMAIN lexErrors' :
        /\ lexErrors'[k].ptr = p
        /\ k > Len(lexErrors) \/ Len(lexErrors) = MaxErrors

\* what the character at p, read in a byte context, has to record
C24_Rejected(p) ==
    /\ (text[p] = U_BACKSLASH /\ text[p + 1] \in {U_u, U_U}) => C24_Recorded(p + 1)
    /\ text[p] > 255 => C24_Recorded(p)

\* a call of kh_lex at b and a single quote
C24_ByteCharacter ==
    (/\ lexpc = "idle"
     /\ text[cursor] = U_b
     /\ text[cursor + 1] = U_SQUOTE
     /\ Len(tokens') = Len(tokens) + 1)
        => /\ C24_Rejected(cursor + 2)
           /\ tokens'[Len(tokens')].token.type = "BYTE"
           /\ tokens'[Len(tokens')].token.value \in 0..255

\* an iteration of the loop of kh_lexString in a byte buffer
C24_ByteBuffer ==
    (lexpc = "string" /\ lexing.is_buffer)
        => /\ C24_Rejected(cursor)
           /\ lexpc' = "idle"
                => /\ tokens'[Len(tokens')].token.type = "BUFFER"
                   /\ \A k \in DOMAIN tokens'[Len(tokens')].token.value :
                        tokens'[Len(tokens')].token.value[k] \in 0..255

C24_ByteContext == [][C24_ByteCharacter /\ C24_ByteBuffer]_vars

\* b'<snowman>: the byte of the code point 9731, and its diagnostic
C24_Witness ==
    /\ Len(tokens) >= 1
    /\ text[2] = U_SQUOTE
    /\ text[3] = U_SNOWMAN
    /\ tokens[1].token = Token("BYTE", U_SNOWMAN % 256)
    /\ \E k \in DOMAIN lexErrors : lexErrors[k].ptr = 3

(***************************************************************************)
(* Operators: prefix and postfix operators on an operand, and chains of    *)
(* operators of one level.                                                 *)
(***************************************************************************)
MaxPrefix == 2     \* prefix operators before an operand
MaxLevelChain == 3 \* operators in a chain of operators of one level

\* the prefix operators and the kind of node of each
PrefixKinds ==
    [ADD |-> "POSITIVE", SUB |-> "NEGATIVE", INCREMENT |-> "PRE_INCREMENT",
     DECREMENT |-> "PRE_DECREMENT", NOT |-> "NOT", BIT_NOT |-> "BIT_NOT"]

PrefixSources ==
    {[i \in 1..Len(operators) |-> Operator(operators[i])] \o <<id_a>> :
        operators \in Sources(DOMAIN PrefixKinds, MaxPrefix)}

PostfixSources ==
    {<<id_a>> \o [i \in 1..Len(operators) |-> Operator(operators[i])] :
        operators \in Sources({"INCREMENT", "DECREMENT"}, MaxPrefix)}

\* the levels of binary operators that hold more than one operator
OperatorLevels == {InplaceOperators, {"ADD", "SUB"}, {"MUL", "DIV", "MOD"}}

LevelChain(operators) ==
    [i \in 1..(2 * Len(operators) + 1) |->
        IF i % 2 = 0 THEN Operator(operators[i \div 2])
        ELSE IF i = 1 THEN id_a ELSE IF i = 3 THEN id_b ELSE IF i = 5 THEN id_c ELSE id_x]

LevelChainLength(level) == IF level = InplaceOperators THEN MaxLevelChain - 1 ELSE MaxLevelChain

LevelChainSources ==
    UNION {{LevelChain(operators) : operators \in Sources(level, LevelChainLength(level))} :
            level \in OperatorLevels}

OperatorInit == ParserStart(PrefixSources \cup PostfixSources \cup LevelChainSources, "expr")

OperatorNext == kh_parseExpression_call

OperatorSpec == OperatorInit /\ [][OperatorNext]_vars

\* the call of kh_parseExpression has returned what it parsed as a value
ParsedValue == Parsed /\ ~expression[1].filter_type

(***************************************************************************)
(* C25: a prefix operator gives a UNARY node of the kind of its token.     *)
(***************************************************************************)
C25_PrefixKind ==
    \A operator \in DOMAIN PrefixKinds :
        (ParsedValue /\ source = <<Operator(operator), id_a>>)
            => /\ expression[1].e.type = "UNARY"
               /\ expression[1].e.v.type = PrefixKinds[operator]
               /\ expression[1].e.v.operand.type = "IDENTIFIER"

\* the operators of the chain in the buffer, if it holds one
ChainOperatorsOf ==
    [i \in 1..((Len(source) - 1) \div 2) |-> source[2 * i].value]

\* the buffer is a chain of one operator or more, all of the level
IsLevelChain(level) ==
    /\ Len(source) >= 3
    /\ Len(source) % 2 = 1
    /\ \A i \in 1..Len(source) : i % 2 = 0 => source[i].type = "OPERATOR"
    /\ source = LevelChain(ChainOperatorsOf)
    /\ \A i \in DOMAIN ChainOperatorsOf : ChainOperatorsOf[i] \in level

(***************************************************************************)
(* C26: a chain of in-place and assignment operators nests to the right:   *)
(* a p b q c is BINARY(p, a, BINARY(q, b, c)).                             *)
(***************************************************************************)
RECURSIVE C26_RightNested(_)
\* the operands from the i-th on, nested to the right
C26_RightNested(i) ==
    IF i > Len(ChainOperatorsOf)
    THEN <<"IDENTIFIER", source[2 * i - 1].value>>
    ELSE BINARY(ChainOperatorsOf[i], <<"IDENTIFIER", source[2 * i - 1].value>>,
                C26_RightNested(i + 1))

C26_InplaceRightAssociative ==
    (ParsedValue /\ IsLevelChain(InplaceOperators))
        => Shape(expression[1].e) = C26_RightNested(1)

(***************************************************************************)
(* C27: a chain of operators of one left-associative level nests to the    *)
(* left: a p b q c is BINARY(q, BINARY(p, a, b), c), whatever its length.  *)
(***************************************************************************)
RECURSIVE C27_LeftNested(_)
\* the operands up to the one behind the i-th operator, nested to the left
C27_LeftNested(i) ==
    IF i = 0
    THEN <<"IDENTIFIER", source[1].value>>
    ELSE BINARY(ChainOperatorsOf[i], C27_LeftNested(i - 1),
                <<"IDENTIFIER", source[2 * i + 1].value>>)

C27_LeftAssociative ==
    \A level \in {{"ADD", "SUB"}, {"MUL", "DIV", "MOD"}} :
        (ParsedValue /\ IsLevelChain(level))
            => /\ Shape(expression[1].e) = C27_LeftNested(Len(ChainOperatorsOf))
               /\ expression[1].end = Len(source) + 1
               /\ errors = <<>>

\* a * b / c % x
C27_Witness ==
    /\ ParsedValue
    /\ source = LevelChain(<<"MUL", "DIV", "MOD">>)
    /\ Shape(expression[1].e)
        = BINARY("MOD", BINARY("DIV", BINARY("MUL", <<"IDENTIFIER", "a">>, <<"IDENTIFIER", "b">>),
                               <<"IDENTIFIER", "c">>), <<"IDENTIFIER", "x">>)

(***************************************************************************)
(* C28: a postfix -- gives a UNARY node of the kind POST_DECREMENT, which  *)
(* is not the kind a postfix ++ gives.                                     *)
(***************************************************************************)
C28_PostfixKind ==
    /\ (ParsedValue /\ source = <<id_a, Operator("DECREMENT")>>)
            => /\ expression[1].e.type = "UNARY"
               /\ expression[1].e.v.type = "POST_DECREMENT"
    /\ (ParsedValue /\ source = <<id_a, Operator("INCREMENT")>>)
            => /\ expression[1].e.type = "UNARY"
               /\ expression[1].e.v.type = "POST_INCREMENT"

(***************************************************************************)
(* C29: the statement a!b followed by a newline gives one expression       *)
(* statement TEMPLATIZE(a, [b]) that ends behind b, and no diagnostic,     *)
(* as a!(b) does.                                                          *)
(***************************************************************************)
\* the position behind the template arguments
C29_ArgumentsEnd == Len(source)

C29_Templatize ==
    (source \in TemplatizeSources /\ Len(calls) >= 1)
        => /\ Len(asts) >= 1
           /\ asts[1].type = "EXPRESSION"
           /\ asts[1].v.type = "TEMPLATIZE"
           /\ asts[1].v.v.value.type = "IDENTIFIER" /\ asts[1].v.v.value.v = "a"
           /\ Len(asts[1].v.v.template_arguments) = 1
           /\ asts[1].v.v.template_arguments[1].type = "IDENTIFIER"
           /\ asts[1].v.v.template_arguments[1].v = "b"
           /\ asts[1].v.end = C29_ArgumentsEnd
           /\ calls[1].end >= C29_ArgumentsEnd
           /\ errors = <<>>
           /\ ppc = "done" => Len(asts) = 1

(***************************************************************************)
(* Hexadecimal literals: 0x and digits out of 1, 2, b, d, e and f.         *)
(***************************************************************************)
MaxHex == 3        \* digits of a hexadecimal literal

HexAlphabet == {U_1, U_2, U_b, U_B, U_d, U_D, U_e, U_E, U_f, U_F}

HexBuffers ==
    {<<U_0, x>> \o digits \o <<U_NUL>> :
        x \in {U_x, U_X},
        digits \in UNION {[1..k -> HexAlphabet] : k \in 1..MaxHex}}

HexInit == LexStart(HexBuffers)

HexNext == kh_lex

HexSpec == HexInit /\ [][HexNext]_vars

(***************************************************************************)
(* C30: in a base-16 literal b, d, e and f of either case are digits:      *)
(* the literal is one INT token of the value of all of its digits.         *)
(***************************************************************************)
C30_HexDigit ==
    (U_1 :> 1) @@ (U_2 :> 2) @@ (U_b :> 11) @@ (U_B :> 11) @@ (U_d :> 13) @@ (U_D :> 13)
        @@ (U_e :> 14) @@ (U_E :> 14) @@ (U_f :> 15) @@ (U_F :> 15)

RECURSIVE C30_Value(_)
\* the value of the digits from the third code point to the p-th
C30_Value(p) == IF p < 3 THEN 0 ELSE 16 * C30_Value(p - 1) + C30_HexDigit[text[p]]

C30_HexDigits ==
    Len(tokens) >= 1
        => /\ tokens[1].token = Token("INT", <<C30_Value(Len(text) - 1), 0, 0, 0>>)
           /\ tokens[1].end = Len(text)
           /\ \A k \in DOMAIN lexErrors : lexErrors[k].ptr >= Len(text)

\* 0x1e2 is 482 and 0x1b is 27
C30_Witness ==
    /\ Len(tokens) >= 1
    /\ \/ /\ text = <<U_0, U_x, U_1, U_e, U_2, U_NUL>>
          /\ tokens[1].token = Token("INT", <<482, 0, 0, 0>>)
       \/ /\ text = <<U_0, U_x, U_1, U_b, U_NUL>>
          /\ tokens[1].token = Token("INT", <<27, 0, 0, 0>>)

====
